---- MODULE Spec2Model ----
(***************************************************************************)
(* A model of the sfl-roof-estimator calculation core: the measurement     *)
(* adapter chain (MeasurementService), the waste-rule evaluator            *)
(* (WasteCalculationService), the pricing engine                           *)
(* (PricingCalculationService), the financing calculation                  *)
(* (FinanceCalculationService), the two quote routes that orchestrate      *)
(* them (PATCH /api/quote/update-selections, POST /api/quote/price), the   *)
(* three measurement adapters' results, the pitch geometry and the rate    *)
(* limiter in front of the public routes.                                  *)
(*                                                                         *)
(* Money and areas are exact rationals <<numerator, denominator>>; the     *)
(* JavaScript code computes them in IEEE doubles, whose rounding error is  *)
(* outside this model.                                                     *)
(***************************************************************************)
EXTENDS Integers, Sequences, FiniteSets, TLC

NULL == "null"

(***************************************************************************)
(* Bounds of the model.                                                    *)
(***************************************************************************)
\* getRoofMeasurements calls begun in one behaviour
MaxMeasureCalls == 2
\* administrator writes to the waste-rule store in one behaviour
MaxAdminWrites == 2
\* getWasteRules / calculateWaste calls begun in one behaviour
MaxWasteCalls == 3
\* measure calls on the heuristic adapter with one input in one behaviour
MaxHeuristicCalls == 2
\* requests to the quote routes begun in one behaviour
MaxRequests == 1
\* sections in the body of one request
MaxSections == 2

(***************************************************************************)
(* Exact rational arithmetic: a number is <<numerator, denominator>> in    *)
(* lowest terms with a positive denominator.                               *)
(***************************************************************************)
Abs(x) == IF x < 0 THEN -x ELSE x

RECURSIVE GCD(_, _)
GCD(a, b) == IF b = 0 THEN a ELSE GCD(b, a % b)

Rat(n, d) ==
    LET g == GCD(Abs(n), Abs(d))
        sgn == IF d < 0 THEN -1 ELSE 1
    IN <<(sgn * n) \div g, (sgn * d) \div g>>

RInt(n) == <<n, 1>>

RMul(a, b) ==
    LET g1 == GCD(Abs(a[1]), b[2])
        g2 == GCD(Abs(b[1]), a[2])
    IN <<(a[1] \div g1) * (b[1] \div g2), (a[2] \div g2) * (b[2] \div g1)>>

RAdd(a, b) ==
    LET g == GCD(a[2], b[2])
    IN Rat(a[1] * (b[2] \div g) + b[1] * (a[2] \div g), (a[2] \div g) * b[2])

RSub(a, b) == RAdd(a, <<-b[1], b[2]>>)

RLe(a, b) == a[1] * b[2] <= b[1] * a[2]

RLt(a, b) == a[1] * b[2] < b[1] * a[2]

\* Math.round: the nearest integer, halves towards +infinity
RRound(a) == (2 * a[1] + a[2]) \div (2 * a[2])

RECURSIVE RPow(_, _)
RPow(a, k) == IF k = 0 THEN RInt(1) ELSE RMul(a, RPow(a, k - 1))

RDiv(a, b) == RMul(a, IF b[1] < 0 THEN <<-b[2], -b[1]>> ELSE <<b[2], b[1]>>)

\* The square root of a rational that is the square of a rational; the model's
\* inputs are chosen so that every root taken is exact
ISqrt(n) == CHOOSE k \in 0..n : k * k = n

RSqrt(a) == <<ISqrt(a[1]), ISqrt(a[2])>>

Min(a, b) == IF a <= b THEN a ELSE b

\* A nullable number that is null (null is falsy, as 0 is)
NullNum == <<0, 0>>

Truthy(a) == a[1] # 0 /\ a[2] # 0

(***************************************************************************)
(* MeasurementService state.                                               *)
(***************************************************************************)
VARIABLES
    adapters,        \* MeasurementService.adapters, in order of preference
    mCalls,          \* getRoofMeasurements calls begun so far
    mpc,             \* position of the current getRoofMeasurements call
    mIdx,            \* index of the adapter the for-loop is at
    selectedAdapter, \* local selectedAdapter (an adapter name or NULL)
    lastError,       \* local lastError (a probe error or NoError)
    probeLog,        \* history: <<adapter name, outcome>> of every isAvailable in this call
    measureLog,      \* history: adapter name of every measure() in this call
    mResult,         \* the MeasurementResult the call returns (or NoMeasurement)
    mError,          \* the Error the call throws (or NoFailure)
    measurements,    \* the measurement table of the store
    manualSetFor     \* history: the call setManualData was last called for (0: never)

measureVars == <<adapters, mCalls, mpc, mIdx, selectedAdapter, lastError,
                 probeLog, measureLog, mResult, mError, measurements, manualSetFor>>

(***************************************************************************)
(* WasteCalculationService state.                                          *)
(***************************************************************************)
VARIABLES
    wStore,       \* the newest wasteRules row of the store (NoRules: the table is empty)
    wVersion,     \* history: administrator writes to the store so far
    cachedRules,  \* WasteCalculationService.cachedRules, with the store version it was read at
    wCalls,       \* the getWasteRules / calculateWaste calls in flight, per caller
    wBegun,       \* calls begun so far
    wInvalidated  \* history: invalidateCache ran after the last write to the store

wasteVars == <<wStore, wVersion, cachedRules, wCalls, wBegun, wInvalidated>>

(***************************************************************************)
(* A pure function under test: its argument, whether it was applied, and   *)
(* what it returned.                                                       *)
(***************************************************************************)
VARIABLES arg, applied, ret

fnVars == <<arg, applied, ret>>

(***************************************************************************)
(* The quote routes: the store they work on and the request in flight.     *)
(***************************************************************************)
VARIABLES
    rateCard,        \* the pricingMatrix table: the name of the rate card it holds
    quote,           \* the quote row of the store
    sections,        \* the roofSection rows of the quote, by id
    rKind,           \* the route of the request in flight: "patch", "price" or "none"
    rpc,             \* position of the request in its handler
    rReq,            \* the parsed body of the request
    loadedQuote,     \* PATCH local quote: the row and its sections as read at the start
    requestRules,    \* cachedRules of the request's own WasteCalculationService
    tasks,           \* the calculateSectionPrice calls of the request
    totalPriceCents, \* PATCH local totalPriceCents
    rTotalPrice,     \* POST local totalPrice (NullNum before calculateQuotePrice returns)
    financeArg,      \* the amount calculateFinancingOptions was called with (or NullNum)
    financing,       \* what calculateFinancingOptions returned
    rStatus,         \* HTTP status of the response (0: none yet)
    quoteAtStart,    \* history: the quote row when the request began
    sectionsAtStart, \* history: the roofSection rows when the request began
    nRequests        \* requests begun so far

quoteVars == <<rateCard, quote, sections, rKind, rpc, rReq, loadedQuote, requestRules,
               tasks, totalPriceCents, rTotalPrice, financeArg, financing, rStatus,
               quoteAtStart, sectionsAtStart, nRequests>>

(***************************************************************************)
(* The rate limiter (rate-limit.ts): the module's map, the clock, and what *)
(* the calls so far did.                                                   *)
(***************************************************************************)
VARIABLES
    requests,   \* the module's Map: identifier -> [count, reset]
    now,        \* Date.now(), in ticks
    rlLast,     \* history: the last rateLimit call, its result and the HTTP status
    windows     \* history: per identifier and endpoint, the window the calls fall in

rateVars == <<requests, now, rlLast, windows>>

vars == <<measureVars, wasteVars, fnVars, quoteVars, rateVars>>

\* What each component's steps leave alone
notMeasure == <<wasteVars, fnVars, quoteVars, rateVars>>
notWaste == <<measureVars, fnVars, quoteVars, rateVars>>
notFn == <<measureVars, wasteVars, quoteVars, rateVars>>
notQuote == <<measureVars, wasteVars, fnVars, rateVars>>
notRate == <<measureVars, wasteVars, fnVars, quoteVars>>

AdapterOrder == <<"thirdParty", "manual", "heuristic">>

Qualities == {"high", "medium", "low"}

\* new ThirdPartyMeasurementAdapter(): configured iff both env vars are set
ThirdPartyAdapter(configured) ==
    [name |-> "thirdParty", impl |-> "shipped", configured |-> configured, manualData |-> NULL]

\* new ManualMeasurementAdapter(): manualData = null
ManualAdapter ==
    [name |-> "manual", impl |-> "shipped", configured |-> FALSE, manualData |-> NULL]

\* new HeuristicMeasurementAdapter()
HeuristicAdapter ==
    [name |-> "heuristic", impl |-> "shipped", configured |-> FALSE, manualData |-> NULL]

\* An arbitrary implementation of the MeasurementAdapter interface under the given name
StubAdapter(n) ==
    [name |-> n, impl |-> "stub", configured |-> FALSE, manualData |-> NULL]

\* The array the MeasurementService constructor builds
ShippedAdapters(configured) ==
    <<ThirdPartyAdapter(configured), ManualAdapter, HeuristicAdapter>>

StubAdapters == [i \in 1..3 |-> StubAdapter(AdapterOrder[i])]

\* What GET {baseUrl}/health can do within the 5 s AbortSignal timeout
HealthResponses == {"ok", "notOk", "timeout"}

\* A probe error, as the catch clause sees it
ProbeError(n) == [kind |-> "probeError", at |-> n]

NoError == [kind |-> "none", at |-> "none"]

\* The Error getRoofMeasurements throws
Failure(kind, cause) == [kind |-> kind, cause |-> cause]

NoFailure == Failure("none", NoError)

\* A promise of a boolean that resolves
Resolved(b) == IF b THEN "true" ELSE "false"

\* ThirdPartyMeasurementAdapter.isAvailable: false when unconfigured, response.ok
\* otherwise; a fetch that throws or times out is caught and reported as false
ThirdPartyIsAvailable(a, health) ==
    IF ~a.configured THEN FALSE
    ELSE IF health = "timeout" THEN FALSE
    ELSE health = "ok"

\* ManualMeasurementAdapter.isAvailable
ManualIsAvailable(a) == a.manualData # NULL

\* A heuristic adapter that never reports available
HeuristicIsAvailableNever(a) == FALSE

\* HeuristicMeasurementAdapter.isAvailable
HeuristicIsAvailable(a) == TRUE

\* The outcomes `await adapter.isAvailable()` can have: "true", "false" or "throw"
\* (the promise rejects). The interface allows all three; the shipped adapters
\* never reject.
IsAvailableOutcomes(a) ==
    IF a.impl = "stub" THEN {"true", "false", "throw"}
    ELSE IF a.name = "thirdParty"
    THEN {Resolved(ThirdPartyIsAvailable(a, h)) : h \in HealthResponses}
    ELSE IF a.name = "manual" THEN {Resolved(ManualIsAvailable(a))}
    ELSE {Resolved(HeuristicIsAvailable(a))}

MeasurementOf(method, quality) == [method |-> method, quality |-> quality]

NoMeasurement == MeasurementOf("none", "none")

\* measure() rejects
Throws == [threw |-> TRUE, result |-> NoMeasurement]

\* measure() resolves to r
Returns(r) == [threw |-> FALSE, result |-> r]

\* ThirdPartyMeasurementAdapter.measure: throws when unconfigured or when the
\* request fails; otherwise transformResponse grades the vendor's confidence
ThirdPartyMeasure(a) ==
    IF ~a.configured THEN {Throws}
    ELSE {Throws} \cup {Returns(MeasurementOf("thirdParty", q)) : q \in Qualities}

\* ManualMeasurementAdapter.measure
ManualMeasure(a) ==
    IF a.manualData = NULL THEN {Throws}
    ELSE {Returns(MeasurementOf("manual", a.manualData))}

\* HeuristicMeasurementAdapter.measure
HeuristicMeasure(a) == {Returns(MeasurementOf("heuristic", "medium"))}

\* The outcomes `await selectedAdapter.measure(input)` can have
MeasureOutcomes(a) ==
    IF a.impl = "stub"
    THEN {Throws} \cup {Returns(MeasurementOf(a.name, q)) : q \in Qualities}
    ELSE IF a.name = "thirdParty" THEN ThirdPartyMeasure(a)
    ELSE IF a.name = "manual" THEN ManualMeasure(a)
    ELSE HeuristicMeasure(a)

AdapterNamed(n) == CHOOSE i \in 1..Len(adapters) : adapters[i].name = n

MeasureIdle ==
    /\ mCalls = 0
    /\ mpc = "idle"
    /\ mIdx = 1
    /\ selectedAdapter = NULL
    /\ lastError = NoError
    /\ probeLog = <<>>
    /\ measureLog = <<>>
    /\ mResult = NoMeasurement
    /\ mError = NoFailure
    /\ measurements = <<>>
    /\ manualSetFor = 0

\* The service as constructed, with the shipped adapters or with arbitrary
\* implementations of the adapter interface
MeasureInit ==
    /\ adapters \in {ShippedAdapters(c) : c \in BOOLEAN} \cup {StubAdapters}
    /\ MeasureIdle

\* ManualMeasurementAdapter.setManualData on the service's manual adapter, by
\* the caller of the call in flight or, between calls, of the next one
SetManualData(q) ==
    /\ adapters[2].impl = "shipped"
    /\ adapters[2].manualData # q
    /\ adapters' = [adapters EXCEPT ![2].manualData = q]
    /\ manualSetFor' = IF mpc \in {"idle", "done", "failed"} THEN mCalls + 1 ELSE mCalls
    /\ UNCHANGED <<mCalls, mpc, mIdx, selectedAdapter, lastError, probeLog,
                   measureLog, mResult, mError, measurements>>
    /\ UNCHANGED notMeasure

\* getRoofMeasurements is called: the locals are initialised
BeginMeasure ==
    /\ mpc \in {"idle", "done", "failed"}
    /\ mCalls < MaxMeasureCalls
    /\ mCalls' = mCalls + 1
    /\ mpc' = "probing"
    /\ mIdx' = 1
    /\ selectedAdapter' = NULL
    /\ lastError' = NoError
    /\ probeLog' = <<>>
    /\ measureLog' = <<>>
    /\ mResult' = NoMeasurement
    /\ mError' = NoFailure
    /\ UNCHANGED <<adapters, manualSetFor, measurements>>
    /\ UNCHANGED notMeasure

\* The step of the for-loop after the probe at mIdx did not select
ProbeAdvance ==
    IF mIdx = Len(adapters)
    THEN mpc' = "selectionEnd" /\ mIdx' = mIdx
    ELSE mpc' = "probing" /\ mIdx' = mIdx + 1

\* Probe without the break: the loop goes on after an available adapter
ProbeNoBreak ==
    /\ mpc = "probing"
    /\ \E out \in IsAvailableOutcomes(adapters[mIdx]) :
        /\ probeLog' = Append(probeLog, <<adapters[mIdx].name, out>>)
        /\ IF out = "true"
           THEN /\ selectedAdapter' = adapters[mIdx].name
                /\ ProbeAdvance
                /\ UNCHANGED lastError
           ELSE IF out = "throw"
           THEN /\ lastError' = ProbeError(adapters[mIdx].name)
                /\ ProbeAdvance
                /\ UNCHANGED selectedAdapter
           ELSE /\ ProbeAdvance
                /\ UNCHANGED <<selectedAdapter, lastError>>
    /\ UNCHANGED <<adapters, manualSetFor, mCalls, measureLog, mResult, mError, measurements>>
    /\ UNCHANGED notMeasure

\* Probe without the try/catch: a probe that throws ends the call
ProbeNoCatch ==
    /\ mpc = "probing"
    /\ \E out \in IsAvailableOutcomes(adapters[mIdx]) :
        /\ probeLog' = Append(probeLog, <<adapters[mIdx].name, out>>)
        /\ IF out = "true"
           THEN /\ selectedAdapter' = adapters[mIdx].name
                /\ mpc' = "selectionEnd"
                /\ UNCHANGED <<mIdx, lastError, mError>>
           ELSE IF out = "throw"
           THEN /\ mpc' = "failed"
                /\ mError' = Failure("ProbeFailed", ProbeError(adapters[mIdx].name))
                /\ UNCHANGED <<mIdx, selectedAdapter, lastError>>
           ELSE /\ ProbeAdvance
                /\ UNCHANGED <<selectedAdapter, lastError, mError>>
    /\ UNCHANGED <<adapters, manualSetFor, mCalls, measureLog, mResult, measurements>>
    /\ UNCHANGED notMeasure

\* One iteration of the for-loop: await adapter.isAvailable() in a try/catch
Probe ==
    /\ mpc = "probing"
    /\ \E out \in IsAvailableOutcomes(adapters[mIdx]) :
        /\ probeLog' = Append(probeLog, <<adapters[mIdx].name, out>>)
        /\ IF out = "true"
           THEN /\ selectedAdapter' = adapters[mIdx].name
                /\ mpc' = "selectionEnd"
                /\ UNCHANGED <<mIdx, lastError>>
           ELSE IF out = "throw"
           THEN /\ lastError' = ProbeError(adapters[mIdx].name)
                /\ ProbeAdvance
                /\ UNCHANGED selectedAdapter
           ELSE /\ ProbeAdvance
                /\ UNCHANGED <<selectedAdapter, lastError>>
    /\ UNCHANGED <<adapters, manualSetFor, mCalls, measureLog, mResult, mError, measurements>>
    /\ UNCHANGED notMeasure

\* The throw after the loop without the last probe error in it
SelectionEndNoCause ==
    /\ mpc = "selectionEnd"
    /\ IF selectedAdapter = NULL
       THEN /\ mpc' = "failed"
            /\ mError' = Failure("NoAdaptersAvailable", NoError)
       ELSE /\ mpc' = "measuring"
            /\ UNCHANGED mError
    /\ UNCHANGED <<adapters, manualSetFor, mCalls, mIdx, selectedAdapter, lastError, probeLog,
                   measureLog, mResult, measurements>>
    /\ UNCHANGED notMeasure

\* if (!selectedAdapter) throw new Error('No measurement adapters available...')
SelectionEnd ==
    /\ mpc = "selectionEnd"
    /\ IF selectedAdapter = NULL
       THEN /\ mpc' = "failed"
            /\ mError' = Failure("NoAdaptersAvailable", lastError)
       ELSE /\ mpc' = "measuring"
            /\ UNCHANGED mError
    /\ UNCHANGED <<adapters, manualSetFor, mCalls, mIdx, selectedAdapter, lastError, probeLog,
                   measureLog, mResult, measurements>>
    /\ UNCHANGED notMeasure

\* Measure with the fallback the probes have: a failed measure goes on to the
\* next adapter in the order
MeasureWithFallback ==
    /\ mpc = "measuring"
    /\ \E out \in MeasureOutcomes(adapters[AdapterNamed(selectedAdapter)]) :
        /\ measureLog' = Append(measureLog, selectedAdapter)
        /\ IF out.threw /\ AdapterNamed(selectedAdapter) < Len(adapters)
           THEN /\ mpc' = "probing"
                /\ mIdx' = AdapterNamed(selectedAdapter) + 1
                /\ selectedAdapter' = NULL
                /\ UNCHANGED <<mResult, mError>>
           ELSE IF out.threw
           THEN /\ mpc' = "failed"
                /\ mError' = Failure("MeasurementFailed",
                                     [kind |-> "measureError", at |-> selectedAdapter])
                /\ UNCHANGED <<mResult, mIdx, selectedAdapter>>
           ELSE /\ mpc' = "storing"
                /\ mResult' = out.result
                /\ UNCHANGED <<mError, mIdx, selectedAdapter>>
    /\ UNCHANGED <<adapters, manualSetFor, mCalls, lastError, probeLog, measurements>>
    /\ UNCHANGED notMeasure

\* await selectedAdapter.measure(input), inside the second try/catch
Measure ==
    /\ mpc = "measuring"
    /\ \E out \in MeasureOutcomes(adapters[AdapterNamed(selectedAdapter)]) :
        /\ measureLog' = Append(measureLog, selectedAdapter)
        /\ IF out.threw
           THEN /\ mpc' = "failed"
                /\ mError' = Failure("MeasurementFailed",
                                     [kind |-> "measureError", at |-> selectedAdapter])
                /\ UNCHANGED mResult
           ELSE /\ mpc' = "storing"
                /\ mResult' = out.result
                /\ UNCHANGED mError
    /\ UNCHANGED <<adapters, manualSetFor, mCalls, mIdx, selectedAdapter, lastError,
                   probeLog, measurements>>
    /\ UNCHANGED notMeasure

\* The store step with a record written also when create fails
StoreMeasurementAlways ==
    /\ mpc = "storing"
    /\ \E ok \in BOOLEAN :
        IF ok
        THEN /\ measurements' = Append(measurements, mResult)
             /\ mpc' = "done"
             /\ UNCHANGED <<mResult, mError>>
        ELSE /\ mpc' = "failed"
             /\ mResult' = NoMeasurement
             /\ mError' = Failure("MeasurementFailed",
                                  [kind |-> "storeError", at |-> selectedAdapter])
             /\ measurements' = Append(measurements, mResult)
    /\ UNCHANGED <<adapters, manualSetFor, mCalls, mIdx, selectedAdapter, lastError,
                   probeLog, measureLog>>
    /\ UNCHANGED notMeasure

\* await prisma.measurement.create(...), then return; a store error is wrapped
\* by the same catch
StoreMeasurement ==
    /\ mpc = "storing"
    /\ \E ok \in BOOLEAN :
        IF ok
        THEN /\ measurements' = Append(measurements, mResult)
             /\ mpc' = "done"
             /\ UNCHANGED <<mResult, mError>>
        ELSE /\ mpc' = "failed"
             /\ mResult' = NoMeasurement
             /\ mError' = Failure("MeasurementFailed",
                                  [kind |-> "storeError", at |-> selectedAdapter])
             /\ UNCHANGED measurements
    /\ UNCHANGED <<adapters, manualSetFor, mCalls, mIdx, selectedAdapter, lastError,
                   probeLog, measureLog>>
    /\ UNCHANGED notMeasure

MeasureNext ==
    \/ \E q \in Qualities : SetManualData(q)
    \/ BeginMeasure
    \/ Probe
    \/ SelectionEnd
    \/ Measure
    \/ StoreMeasurement

\* The service before any call, with the shipped adapters
MeasureQuiet ==
    /\ adapters = ShippedAdapters(FALSE)
    /\ MeasureIdle

(***************************************************************************)
(* WasteCalculationService.                                                *)
(***************************************************************************)
Rule(lo, hi, add) == [min |-> lo, max |-> hi, add |-> add]

WasteRulesConfig(base, cap, f, h, p) ==
    [basePercent |-> base, maxPercent |-> cap, facets |-> f, hipsValleys |-> h,
     penetrations |-> p]

DefaultFacets ==
    <<Rule(0, 6, 0), Rule(7, 12, 2), Rule(13, 20, 4), Rule(21, 999, 6)>>

DefaultHipsValleys ==
    <<Rule(0, 2, 0), Rule(3, 5, 1), Rule(6, 10, 3), Rule(11, 999, 5)>>

DefaultPenetrations ==
    <<Rule(0, 3, 0), Rule(4, 8, 1), Rule(9, 15, 2), Rule(16, 999, 4)>>

DEFAULT_WASTE_RULES ==
    WasteRulesConfig(12, 22, DefaultFacets, DefaultHipsValleys, DefaultPenetrations)

\* cachedRules = null, and the empty wasteRules table
NoRules == WasteRulesConfig(-1, -1, <<>>, <<>>, <<>>)

\* Tier tables an administrator can store besides the seeded ones: overlapping
\* ranges with a gap, one steep range, and no range at all
OverlapTable == <<Rule(2, 8, 3), Rule(5, 12, 9)>>
SteepTable == <<Rule(0, 999, 15)>>
EmptyTable == <<>>

\* The row prisma/seed.ts creates: the same numbers as the built-in default
SeedRules == DEFAULT_WASTE_RULES

\* Rows an administrator writes in the stateful specification
AdminRulesA == WasteRulesConfig(10, 15, SteepTable, DefaultHipsValleys, OverlapTable)
AdminRulesB == WasteRulesConfig(20, 18, DefaultFacets, EmptyTable, DefaultPenetrations)

StoredRules == {SeedRules, AdminRulesA, AdminRulesB}

Complexity(f, h, p) == [facets |-> f, hipsValleys |-> h, penetrations |-> p]

\* WasteCalculationResult
WasteResult(base, fa, ha, pa, total, area, squares) ==
    [baseWaste |-> base, facetsAdder |-> fa, hipsValleysAdder |-> ha,
     penetrationsAdder |-> pa, totalWastePercent |-> total,
     finalAreaSqFt |-> area, finalSquares |-> squares]

NoWasteResult == WasteResult(-1, -1, -1, -1, -1, RInt(0), RInt(0))

\* getAdderForValue with the upper end of a range excluded
GetAdderForValueExclusive(value, rules) ==
    LET hits == {i \in 1..Len(rules) : value >= rules[i].min /\ value < rules[i].max}
    IN IF hits = {} THEN 0
       ELSE rules[CHOOSE i \in hits : \A j \in hits : i <= j].add

\* rules.find(r => value >= r.min && value <= r.max)?.add || 0
GetAdderForValue(value, rules) ==
    LET hits == {i \in 1..Len(rules) : value >= rules[i].min /\ value <= rules[i].max}
    IN IF hits = {} THEN 0
       ELSE rules[CHOOSE i \in hits : \A j \in hits : i <= j].add

\* calculateWaste without the cap on the total
ComputeWasteUncapped(rules, areaSqFt, complexity) ==
    LET fa == GetAdderForValue(complexity.facets, rules.facets)
        ha == GetAdderForValue(complexity.hipsValleys, rules.hipsValleys)
        pa == GetAdderForValue(complexity.penetrations, rules.penetrations)
        total == rules.basePercent + fa + ha + pa
        finalArea == RMul(areaSqFt, Rat(100 + total, 100))
    IN WasteResult(rules.basePercent, fa, ha, pa, total, finalArea,
                   RMul(finalArea, Rat(1, 100)))

\* calculateWaste after `rules = await this.getWasteRules()`
ComputeWaste(rules, areaSqFt, complexity) ==
    LET baseWaste == rules.basePercent
        facetsAdder == GetAdderForValue(complexity.facets, rules.facets)
        hipsValleysAdder == GetAdderForValue(complexity.hipsValleys, rules.hipsValleys)
        penetrationsAdder == GetAdderForValue(complexity.penetrations, rules.penetrations)
        sum == baseWaste + facetsAdder + hipsValleysAdder + penetrationsAdder
        totalWastePercent == Min(sum, rules.maxPercent)
        finalAreaSqFt == RMul(areaSqFt, Rat(100 + totalWastePercent, 100))
        finalSquares == RMul(finalAreaSqFt, Rat(1, 100))
    IN WasteResult(baseWaste, facetsAdder, hipsValleysAdder, penetrationsAdder,
                   totalWastePercent, finalAreaSqFt, finalSquares)

\* The callers that can have a call in flight on the one service instance
WasteCallers == {"c1", "c2"}

\* What the stateful specification asks calculateWaste
WasteInputs ==
    {[areaSqFt |-> RInt(1000), complexity |-> Complexity(9, 4, 6)]}

NoWasteInput == [areaSqFt |-> RInt(0), complexity |-> Complexity(0, 0, 0)]

\* A caller's call: where it is, what was asked, what the store answered and
\* what was returned. startVersion, rulesVersion and source are history.
WasteCall(pc, op, input, startVersion, loadOk, loaded, loadedVersion, rules, rulesVersion, source, result) ==
    [pc |-> pc, op |-> op, input |-> input, startVersion |-> startVersion,
     loadOk |-> loadOk, loaded |-> loaded, loadedVersion |-> loadedVersion,
     rules |-> rules, rulesVersion |-> rulesVersion, source |-> source,
     result |-> result]

IdleWasteCall ==
    WasteCall("idle", "none", NoWasteInput, 0, TRUE, NoRules, 0, NoRules, 0, "none",
              NoWasteResult)

Cached(rules, version) == [rules |-> rules, version |-> version]

WasteIdle ==
    /\ wStore = SeedRules
    /\ wVersion = 0
    /\ cachedRules = Cached(NoRules, 0)
    /\ wCalls = [c \in WasteCallers |-> IdleWasteCall]
    /\ wBegun = 0
    /\ wInvalidated = FALSE

\* new WasteCalculationService(prisma), over a store that is seeded or empty
WasteInit ==
    /\ wStore \in {SeedRules, NoRules}
    /\ wVersion = 0
    /\ cachedRules = Cached(NoRules, 0)
    /\ wCalls = [c \in WasteCallers |-> IdleWasteCall]
    /\ wBegun = 0
    /\ wInvalidated = FALSE

\* What a call returns once its rules are known: the rules themselves for
\* getWasteRules, the computed waste for calculateWaste
WasteOutcome(op, input, rules) ==
    IF op \in {"calculateWaste", "calculateWasteForSections"}
    THEN ComputeWaste(rules, input.areaSqFt, input.complexity)
    ELSE NoWasteResult

\* getWasteRules up to its first await: the cached rules are returned at once,
\* otherwise prisma.wasteRules.findFirst is issued
BeginWasteCall(c, op, input) ==
    /\ wCalls[c].pc \in {"idle", "done"}
    /\ wBegun < MaxWasteCalls
    /\ wBegun' = wBegun + 1
    /\ IF cachedRules.rules # NoRules
       THEN wCalls' = [wCalls EXCEPT ![c] =
                WasteCall("done", op, input, wVersion, TRUE, NoRules, 0,
                          cachedRules.rules, cachedRules.version, "cache",
                          WasteOutcome(op, input, cachedRules.rules))]
       ELSE wCalls' = [wCalls EXCEPT ![c] =
                WasteCall("reading", op, input, wVersion, TRUE, NoRules, 0,
                          NoRules, 0, "none", NoWasteResult)]
    /\ UNCHANGED <<wStore, wVersion, cachedRules>>
    /\ UNCHANGED wInvalidated
    /\ UNCHANGED notWaste

\* calculateWasteForSections for two sections: sections.map calls
\* calculateWaste for each before anything is awaited, so both calls run up to
\* their first await in one step, one per caller
CalculateWasteForSections(first, second) ==
    /\ \A c \in WasteCallers : wCalls[c].pc \in {"idle", "done"}
    /\ wBegun + 2 <= MaxWasteCalls
    /\ wBegun' = wBegun + 2
    /\ LET input(c) == IF c = "c1" THEN first ELSE second
           op == "calculateWasteForSections"
       IN IF cachedRules.rules # NoRules
          THEN wCalls' = [c \in WasteCallers |->
                   WasteCall("done", op, input(c), wVersion, TRUE, NoRules, 0,
                             cachedRules.rules, cachedRules.version, "cache",
                             WasteOutcome(op, input(c), cachedRules.rules))]
          ELSE wCalls' = [c \in WasteCallers |->
                   WasteCall("reading", op, input(c), wVersion, TRUE, NoRules, 0,
                             NoRules, 0, "none", NoWasteResult)]
    /\ UNCHANGED <<wStore, wVersion, cachedRules>>
    /\ UNCHANGED wInvalidated
    /\ UNCHANGED notWaste

\* The store answers findFirst: the newest row as of now, or an error
StoreAnswers(c) ==
    /\ wCalls[c].pc = "reading"
    /\ \E ok \in BOOLEAN :
        wCalls' = [wCalls EXCEPT ![c].pc = "resuming",
                                 ![c].loadOk = ok,
                                 ![c].loaded = IF ok THEN wStore ELSE NoRules,
                                 ![c].loadedVersion = wVersion]
    /\ UNCHANGED <<wStore, wVersion, cachedRules, wBegun>>
    /\ UNCHANGED wInvalidated
    /\ UNCHANGED notWaste

\* getWasteRules without the catch: a failed read fails the call
ResumeWasteCallRethrow(c) ==
    /\ wCalls[c].pc = "resuming"
    /\ LET call == wCalls[c]
           rules == IF call.loaded # NoRules THEN call.loaded ELSE DEFAULT_WASTE_RULES
       IN IF call.loadOk
          THEN /\ cachedRules' = Cached(rules, call.loadedVersion)
               /\ wCalls' = [wCalls EXCEPT ![c].pc = "done",
                                           ![c].rules = rules,
                                           ![c].rulesVersion = call.loadedVersion,
                                           ![c].source =
                                               IF call.loaded = NoRules THEN "defaultNoRow"
                                               ELSE "store",
                                           ![c].result =
                                               WasteOutcome(call.op, call.input, rules)]
          ELSE /\ cachedRules' = cachedRules
               /\ wCalls' = [wCalls EXCEPT ![c].pc = "failed"]
    /\ UNCHANGED <<wStore, wVersion, wBegun>>
    /\ UNCHANGED wInvalidated
    /\ UNCHANGED notWaste

\* getWasteRules after the await: the row (or, with no row, the built-in
\* default) goes into the cache and is returned; after an error the built-in
\* default is returned and nothing is cached
ResumeWasteCall(c) ==
    /\ wCalls[c].pc = "resuming"
    /\ LET call == wCalls[c]
           rules == IF call.loadOk /\ call.loaded # NoRules THEN call.loaded
                    ELSE DEFAULT_WASTE_RULES
           source == IF ~call.loadOk THEN "defaultOnError"
                     ELSE IF call.loaded = NoRules THEN "defaultNoRow"
                     ELSE "store"
       IN /\ cachedRules' = IF call.loadOk THEN Cached(rules, call.loadedVersion)
                            ELSE cachedRules
          /\ wCalls' = [wCalls EXCEPT ![c].pc = "done",
                                      ![c].rules = rules,
                                      ![c].rulesVersion = call.loadedVersion,
                                      ![c].source = source,
                                      ![c].result = WasteOutcome(call.op, call.input, rules)]
    /\ UNCHANGED <<wStore, wVersion, wBegun>>
    /\ UNCHANGED wInvalidated
    /\ UNCHANGED notWaste

\* WasteCalculationService.invalidateCache
InvalidateCache ==
    /\ cachedRules' = Cached(NoRules, 0)
    /\ wInvalidated' = TRUE
    /\ UNCHANGED <<wStore, wVersion, wCalls, wBegun>>
    /\ UNCHANGED notWaste

\* An administrator stores a new wasteRules row
AdminWrite(rules) ==
    /\ wVersion < MaxAdminWrites
    /\ rules # wStore
    /\ wStore' = rules
    /\ wVersion' = wVersion + 1
    /\ wInvalidated' = FALSE
    /\ UNCHANGED <<cachedRules, wCalls, wBegun>>
    /\ UNCHANGED notWaste

WasteNext ==
    \/ \E c \in WasteCallers, op \in {"getWasteRules", "calculateWaste"}, input \in WasteInputs :
          BeginWasteCall(c, op, input)
    \/ \E first \in WasteInputs, second \in WasteInputs :
          CalculateWasteForSections(first, second)
    \/ \E c \in WasteCallers : StoreAnswers(c)
    \/ \E c \in WasteCallers : ResumeWasteCall(c)
    \/ InvalidateCache
    \/ \E rules \in StoredRules : AdminWrite(rules)

(***************************************************************************)
(* The waste computation as a pure function of the rules and the section.  *)
(***************************************************************************)
BasePercents == {0, 12, 25}
MaxPercents == {10, 22}
FacetTables == {DefaultFacets, SteepTable, OverlapTable}
HipsValleysTables == {DefaultHipsValleys, EmptyTable}
PenetrationsTables == {DefaultPenetrations, OverlapTable}
FacetCounts == {0, 6, 7, 9, 12, 13, 21, 1000}
HipsValleysCounts == {0, 2, 4, 5, 12}
PenetrationCounts == {0, 3, 6, 16}
Areas == {RInt(1000), Rat(2501, 2)}

WasteArgs ==
    {[rules |-> WasteRulesConfig(b, m, f, h, p), areaSqFt |-> a,
      complexity |-> Complexity(fc, hc, pc)] :
        b \in BasePercents, m \in MaxPercents, f \in FacetTables,
        h \in HipsValleysTables, p \in PenetrationsTables, a \in Areas,
        fc \in FacetCounts, hc \in HipsValleysCounts, pc \in PenetrationCounts}

FnIdle ==
    /\ arg = NULL
    /\ applied = FALSE
    /\ ret = NULL

WasteCalcInit ==
    /\ arg \in WasteArgs
    /\ applied = FALSE
    /\ ret = NoWasteResult

ApplyComputeWaste ==
    /\ ~applied
    /\ applied' = TRUE
    /\ ret' = ComputeWaste(arg.rules, arg.areaSqFt, arg.complexity)
    /\ UNCHANGED arg
    /\ UNCHANGED notFn

(***************************************************************************)
(* HeuristicMeasurementAdapter.measure.  The values Math.random() returns   *)
(* are not determined by the program: a measure call takes them from        *)
(* RandomValues, one per Math.random() call in the order the code makes     *)
(* them.                                                                    *)
(***************************************************************************)
RandomValues == {Rat(1, 4), Rat(9, 10)}

\* The Math.random() calls one measure call can make: one in
\* estimateFootprint, up to three in analyzeSections, three in
\* estimateComplexity
Draws == [1..7 -> RandomValues]

\* Math.floor of a number that is not negative
RFloor(a) == a[1] \div a[2]

MeasurementInput(lat, lng, placeId, address) ==
    [lat |-> lat, lng |-> lng, placeId |-> placeId, address |-> address]

MeasurementInputs ==
    {MeasurementInput(Rat(2576, 100), Rat(-8019, 100), "place-1", "1 Ocean Dr"),
     MeasurementInput(Rat(2671, 100), Rat(-8005, 100), "place-2", NULL)}

\* estimateFootprint(input).areaSqFt; the bounds it also computes from lat and
\* lng do not reach the result
estimateFootprint(input, draw) ==
    [areaSqFt |-> RAdd(RInt(1800), RMul(draw[1], RInt(800)))]

\* pitches[Math.floor(Math.random() * pitches.length)]
estimatePitch(random) == RInt(<<4, 5, 6, 7, 8>>[RFloor(RMul(random, RInt(5))) + 1])

estimateComplexity(kind, areaSqFt, draw) ==
    LET span(i, n) == RFloor(RMul(draw[i], RInt(n)))
    IN IF kind = "SLOPED"
       THEN IF RLt(areaSqFt, RInt(1000))
            THEN Complexity(4 + span(5, 2), span(6, 2), 2 + span(7, 2))
            ELSE IF RLt(areaSqFt, RInt(2000))
            THEN Complexity(6 + span(5, 4), 2 + span(6, 3), 4 + span(7, 4))
            ELSE Complexity(10 + span(5, 6), 5 + span(6, 5), 6 + span(7, 6))
       ELSE LET perArea == RFloor(RDiv(areaSqFt, RInt(500)))
            IN Complexity(1, 0, IF perArea > 1 THEN perArea ELSE 1)

RoofSectionData(kind, planAreaSqFt, pitchRisePer12, complexity) ==
    [kind |-> kind, planAreaSqFt |-> planAreaSqFt, pitchRisePer12 |-> pitchRisePer12,
     complexity |-> complexity]

analyzeSections(footprint, input, draw) ==
    LET hasMixedRoof == RLt(Rat(3, 10), draw[2])
        slopedArea ==
            RMul(footprint.areaSqFt, RAdd(Rat(6, 10), RMul(draw[3], Rat(3, 10))))
        flatArea == RSub(footprint.areaSqFt, slopedArea)
        isFlat == RLt(Rat(8, 10), draw[3])
    IN IF hasMixedRoof
       THEN <<RoofSectionData("SLOPED", slopedArea, estimatePitch(draw[4]),
                              estimateComplexity("SLOPED", slopedArea, draw))>>
            \o (IF RLt(RInt(200), flatArea)
                THEN <<RoofSectionData("FLAT", flatArea, NullNum,
                                       estimateComplexity("FLAT", flatArea, draw))>>
                ELSE <<>>)
       ELSE IF isFlat
       THEN <<RoofSectionData("FLAT", footprint.areaSqFt, NullNum,
                              estimateComplexity("FLAT", footprint.areaSqFt, draw))>>
       ELSE <<RoofSectionData("SLOPED", footprint.areaSqFt, estimatePitch(draw[4]),
                              estimateComplexity("SLOPED", footprint.areaSqFt, draw))>>

\* HeuristicMeasurementAdapter.measure: the MeasurementResult for the input
\* when Math.random() returns the values of draw
HeuristicMeasurement(input, draw) ==
    LET buildingFootprint == estimateFootprint(input, draw)
        roofSections == analyzeSections(buildingFootprint, input, draw)
    IN [quality |-> "medium", method |-> "heuristic", sections |-> roofSections,
        imageryAttribution |-> "Google / Heuristic Analysis",
        metadata |-> [estimatedFootprintSqFt |-> buildingFootprint.areaSqFt,
                      confidenceScore |-> Rat(65, 100),
                      needsUserConfirmation |-> Len(roofSections) > 2]]

\* The adapter and an input, before any measure call with it
HeuristicCalcInit ==
    /\ arg \in MeasurementInputs
    /\ applied = FALSE
    /\ ret = <<>>

\* One measure(arg) call; ret collects the results of the calls
HeuristicMeasureCall ==
    /\ Len(ret) < MaxHeuristicCalls
    /\ \E draw \in Draws : ret' = Append(ret, HeuristicMeasurement(arg, draw))
    /\ applied' = TRUE
    /\ UNCHANGED arg
    /\ UNCHANGED notFn

(***************************************************************************)
(* The results of the three adapters' measure, section by section.  An     *)
(* absent optional field (undefined) is NullNum.                           *)
(***************************************************************************)
\* One entry of ManualMeasurementData.sections
ManualSection(kind, planAreaSqFt, pitchRisePer12, facets, hipsValleys, penetrations) ==
    [kind |-> kind, planAreaSqFt |-> planAreaSqFt, pitchRisePer12 |-> pitchRisePer12,
     facets |-> facets, hipsValleys |-> hipsValleys, penetrations |-> penetrations]

ManualMeasurementData(sectionList, quality, notes) ==
    [sections |-> sectionList, quality |-> quality, notes |-> notes]

\* ManualMeasurementAdapter.measure with manualData set; the timestamp of the
\* metadata is the clock's and is left out
ManualMeasurement(manualData) ==
    LET section(i) ==
            LET s == manualData.sections[i]
            IN RoofSectionData(s.kind, s.planAreaSqFt, s.pitchRisePer12,
                               Complexity(s.facets, s.hipsValleys, s.penetrations))
    IN [quality |-> manualData.quality, method |-> "manual",
        sections |-> [i \in 1..Len(manualData.sections) |-> section(i)],
        imageryAttribution |-> "(c) Manual Override",
        metadata |-> [notes |-> manualData.notes]]

\* One entry of the vendor's roofSections
VendorSection(type, planArea, pitch, facetCount, hipsAndValleys, penetrations) ==
    [type |-> type, planArea |-> planArea, pitch |-> pitch, facetCount |-> facetCount,
     hipsAndValleys |-> hipsAndValleys, penetrations |-> penetrations]

\* The vendor's response body; a body without roofSections has the empty
\* list, which transformResponse maps to the same [] as an absent one
VendorResponse(roofSections, confidence) ==
    [roofSections |-> roofSections, confidence |-> confidence]

\* x || fallback for a count
OrElse(x, fallback) == IF x = 0 THEN fallback ELSE x

\* ThirdPartyAdapter.transformResponse
transformResponse(data) ==
    LET section(i) ==
            LET s == data.roofSections[i]
            IN RoofSectionData(IF s.type = "pitched" THEN "SLOPED" ELSE "FLAT",
                               s.planArea, s.pitch,
                               Complexity(OrElse(s.facetCount, 4),
                                          OrElse(s.hipsAndValleys, 0),
                                          OrElse(s.penetrations, 2)))
    IN [quality |-> IF RLt(Rat(8, 10), data.confidence) THEN "high"
                    ELSE IF RLt(Rat(6, 10), data.confidence) THEN "medium"
                    ELSE "low",
        method |-> "thirdParty",
        sections |-> [i \in 1..Len(data.roofSections) |-> section(i)],
        imageryAttribution |-> "(c) Third Party Measurement Service",
        metadata |-> [confidence |-> data.confidence]]

\* Sequences of at most two elements of S
UpToTwo(S) == {<<>>} \cup {<<a>> : a \in S} \cup {<<a, b>> : a \in S, b \in S}

\* Override data that manualMeasurementSchema accepts: at least one section,
\* a rise between 1 and 20 or none, whatever the kind
ManualDatas ==
    LET entries == {ManualSection(k, RInt(1200), r, 6, 2, 3) :
                        k \in {"SLOPED", "FLAT"}, r \in {NullNum, RInt(6)}}
    IN {ManualMeasurementData(ss, q, "site visit") :
            ss \in UpToTwo(entries) \ {<<>>}, q \in Qualities}

\* Vendor responses: the adapter accepts any JSON body
VendorResponses ==
    LET entries == {VendorSection(t, RInt(1500), p, f, 2, 0) :
                        t \in {"pitched", "flat"}, p \in {NullNum, RInt(5)},
                        f \in {0, 8}}
    IN {VendorResponse(ss, c) :
            ss \in UpToTwo(entries), c \in {Rat(9, 10), Rat(7, 10), Rat(1, 2)}}

NoManualData == ManualMeasurementData(<<>>, "low", NULL)

NoVendorResponse == VendorResponse(<<>>, Rat(0, 1))

\* What one measure call of one adapter works on
AdapterCall(adapter, manualData, response, input) ==
    [adapter |-> adapter, manualData |-> manualData, response |-> response,
     input |-> input]

AdapterCalls ==
    {AdapterCall("manual", m, NoVendorResponse, NULL) : m \in ManualDatas}
    \cup {AdapterCall("thirdParty", NoManualData, r, NULL) : r \in VendorResponses}
    \cup {AdapterCall("heuristic", NoManualData, NoVendorResponse, i.placeId) :
            i \in MeasurementInputs}

AdapterResultInit ==
    /\ arg \in AdapterCalls
    /\ applied = FALSE
    /\ ret = <<>>

\* ManualMeasurementAdapter.measure after setManualData(arg.manualData)
ManualMeasureCall ==
    /\ ~applied
    /\ arg.adapter = "manual"
    /\ applied' = TRUE
    /\ ret' = <<ManualMeasurement(arg.manualData)>>
    /\ UNCHANGED arg
    /\ UNCHANGED notFn

\* ThirdPartyAdapter.measure when the vendor answered 200 with arg.response
ThirdPartyMeasureCall ==
    /\ ~applied
    /\ arg.adapter = "thirdParty"
    /\ applied' = TRUE
    /\ ret' = <<transformResponse(arg.response)>>
    /\ UNCHANGED arg
    /\ UNCHANGED notFn

\* HeuristicMeasurementAdapter.measure
HeuristicResultCall ==
    /\ ~applied
    /\ arg.adapter = "heuristic"
    /\ applied' = TRUE
    /\ \E i \in MeasurementInputs, draw \in Draws :
          /\ i.placeId = arg.input
          /\ ret' = <<HeuristicMeasurement(i, draw)>>
    /\ UNCHANGED arg
    /\ UNCHANGED notFn

(***************************************************************************)
(* Geometry (pitch.ts).                                                    *)
(***************************************************************************)
\* Math.sqrt(1 + (pitchRisePer12 / 12)^2)
calculatePitchMultiplier(pitchRisePer12) ==
    LET riseRatio == RDiv(pitchRisePer12, RInt(12))
    IN RSqrt(RAdd(RInt(1), RMul(riseRatio, riseRatio)))

getPitchTier(pitchRisePer12) ==
    IF RLe(pitchRisePer12, RInt(4)) THEN "LOW"
    ELSE IF RLe(pitchRisePer12, RInt(7)) THEN "MEDIUM"
    ELSE "STEEP"

\* calculateSlopedArea(...).slopedAreaSqFt
calculateSlopedArea(planAreaSqFt, pitchRisePer12) ==
    RMul(planAreaSqFt, calculatePitchMultiplier(pitchRisePer12))

\* The PitchCalculation that calculateSlopedArea returns
PitchCalculation(planAreaSqFt, pitchRisePer12) ==
    LET tier == getPitchTier(pitchRisePer12)
    IN [risePer12 |-> pitchRisePer12,
        tier |-> tier,
        multiplier |-> calculatePitchMultiplier(pitchRisePer12),
        slopedAreaSqFt |-> calculateSlopedArea(planAreaSqFt, pitchRisePer12),
        description |-> IF tier = "LOW" THEN "Low pitch (2/12 - 4/12)"
                        ELSE IF tier = "MEDIUM" THEN "Medium pitch (5/12 - 7/12)"
                        ELSE "Steep pitch (8/12 - 12/12)"]

\* No PitchCalculation: what a caller holds before the call returns
NoPitchCalculation ==
    [risePer12 |-> NullNum, tier |-> NULL, multiplier |-> NullNum,
     slopedAreaSqFt |-> NullNum, description |-> NULL]

\* Plan areas and rises, among them areas that are not positive and rises
\* that are negative; every rise has a rational pitch multiplier
PlanAreas == {RInt(-1200), RInt(-1), RInt(0), RInt(1), RInt(500), RInt(1200),
              RInt(3000), RInt(10000)}

Rises == {RInt(-16), RInt(-9), RInt(-5), Rat(-7, 2), RInt(0), Rat(7, 2), RInt(5),
          RInt(9), RInt(16)}

GeometryCalcInit ==
    /\ arg \in {[planAreaSqFt |-> a, pitchRisePer12 |-> r] : a \in PlanAreas, r \in Rises}
    /\ applied = FALSE
    /\ ret = NoPitchCalculation

\* calculateSlopedArea(arg.planAreaSqFt, arg.pitchRisePer12): the function has
\* no throw statement and calls nothing that throws
ApplyCalculateSlopedArea ==
    /\ ~applied
    /\ applied' = TRUE
    /\ ret' = PitchCalculation(arg.planAreaSqFt, arg.pitchRisePer12)
    /\ UNCHANGED arg
    /\ UNCHANGED notFn

(***************************************************************************)
(* PricingCalculationService.                                              *)
(***************************************************************************)
SystemTypes == {"SHINGLE", "METAL", "FLAT_TPO", "FLAT_MODBIT", "FLAT_BUR"}

\* The family of a system type: the kind of section it may be applied to
Family(systemType) ==
    IF systemType \in {"SHINGLE", "METAL"} THEN "SLOPED" ELSE "FLAT"

PitchTiers == {"LOW", "MEDIUM", "STEEP"}

PricingInput(systemType, county, finalSquares, pitchTier, storyCount, tearOffLayers, isHVHZ) ==
    [systemType |-> systemType, county |-> county, finalSquares |-> finalSquares,
     pitchTier |-> pitchTier, storyCount |-> storyCount,
     tearOffLayers |-> tearOffLayers, isHVHZ |-> isHVHZ]

\* The multiplier bundle of a pricingMatrix row; a factor of 0 is one the row
\* does not carry
Multipliers(low, medium, steep, story, tearOff, hvhz) ==
    [pitch |-> [LOW |-> low, MEDIUM |-> medium, STEEP |-> steep],
     story |-> story, tearOff |-> tearOff, hvhz |-> hvhz]

\* A pricingMatrix row
Row(county, systemType, pitchTier, storyTier, tearOffLayers, hvhz, pricePerSquareCents, multipliers, fixedAdders) ==
    [county |-> county, systemType |-> systemType, pitchTier |-> pitchTier,
     storyTier |-> storyTier, tearOffLayers |-> tearOffLayers, hvhz |-> hvhz,
     pricePerSquareCents |-> pricePerSquareCents, multipliers |-> multipliers,
     fixedAdders |-> fixedAdders]

NoRow == Row(NULL, NULL, NULL, 0, 0, FALSE, 0,
             Multipliers(RInt(0), RInt(0), RInt(0), RInt(0), RInt(0), RInt(0)), <<>>)

\* prisma.pricingMatrix.findFirst({where: {...}}): the rows that match; findFirst
\* returns one of them, or null when there is none
FindPricingMatrix(card, county, input) ==
    {r \in card :
        /\ r.county = county
        /\ r.systemType = input.systemType
        /\ r.pitchTier = input.pitchTier
        /\ r.storyTier = Min(input.storyCount, 3)
        /\ r.tearOffLayers = input.tearOffLayers
        /\ r.hvhz = input.isHVHZ}

\* getPricingMatrix whose fallback ignores the HVHZ flag
getPricingMatrixLooseFallback(card, input) ==
    LET exact == FindPricingMatrix(card, input.county, input)
    IN IF exact # {} THEN exact
       ELSE {r \in card :
                /\ r.county = "DEFAULT"
                /\ r.systemType = input.systemType
                /\ r.pitchTier = input.pitchTier
                /\ r.storyTier = Min(input.storyCount, 3)
                /\ r.tearOffLayers = input.tearOffLayers}

\* getPricingMatrix: the exact county first, then county DEFAULT; the rows it
\* can return ({}: it returns null)
getPricingMatrix(card, input) ==
    LET exact == FindPricingMatrix(card, input.county, input)
    IN IF exact # {} THEN exact
       ELSE FindPricingMatrix(card, "DEFAULT", input)

Line(description, amount, isMultiplier) ==
    [description |-> description, amount |-> amount, isMultiplier |-> isMultiplier]

\* PricingResult
PricingResult(basePrice, totalSquarePrice, finalMultiplier, fixedCosts, totalPrice, breakdown) ==
    [basePrice |-> basePrice, pricePerSquare |-> basePrice,
     totalSquarePrice |-> totalSquarePrice, finalMultiplier |-> finalMultiplier,
     fixedCosts |-> fixedCosts, totalPrice |-> totalPrice, breakdown |-> breakdown]

NoPricingResult == PricingResult(NullNum, NullNum, NullNum, NullNum, NullNum, <<>>)

RECURSIVE SumAdders(_)
SumAdders(adders) ==
    IF adders = <<>> THEN RInt(0)
    ELSE RAdd(Rat(adders[1].cents, 100), SumAdders(Tail(adders)))

\* The price of a section with a story factor that does not compound
\* (flatStory) or with the fixed adders inside the multiplied amount
\* (scaleAdders)
PriceVariant(input, row, flatStory, scaleAdders) ==
    LET basePrice == Rat(row.pricePerSquareCents, 100)
        m == row.multipliers
        pitch == IF input.pitchTier # NULL /\ Truthy(m.pitch[input.pitchTier])
                 THEN m.pitch[input.pitchTier] ELSE RInt(1)
        story == IF input.storyCount > 1 /\ Truthy(m.story)
                 THEN (IF flatStory THEN m.story ELSE RPow(m.story, input.storyCount - 1))
                 ELSE RInt(1)
        tearOff == IF input.tearOffLayers > 0 /\ Truthy(m.tearOff)
                   THEN RAdd(RInt(1), RMul(m.tearOff, RInt(input.tearOffLayers)))
                   ELSE RInt(1)
        hvhz == IF input.isHVHZ /\ Truthy(m.hvhz) THEN m.hvhz ELSE RInt(1)
        finalMultiplier == RMul(RMul(RMul(pitch, story), tearOff), hvhz)
        fixedCosts == SumAdders(row.fixedAdders)
        squarePrice == RMul(basePrice, input.finalSquares)
        totalSquarePrice ==
            RMul(IF scaleAdders THEN RAdd(squarePrice, fixedCosts) ELSE squarePrice,
                 finalMultiplier)
    IN PricingResult(basePrice, totalSquarePrice, finalMultiplier, fixedCosts,
                     IF scaleAdders THEN totalSquarePrice
                     ELSE RAdd(totalSquarePrice, fixedCosts),
                     <<Line("base", squarePrice, FALSE)>>)

PriceWithRowFlatStory(input, row) == PriceVariant(input, row, TRUE, FALSE)

PriceWithRowAddersScaled(input, row) == PriceVariant(input, row, FALSE, TRUE)

\* calculateSectionPrice once the pricingMatrix row is found
PriceWithRow(input, row) ==
    LET basePrice == Rat(row.pricePerSquareCents, 100)
        multipliers == row.multipliers
        baseSquarePrice == RMul(basePrice, input.finalSquares)
        hasPitch == input.pitchTier # NULL /\ Truthy(multipliers.pitch[input.pitchTier])
        pitchMultiplier == IF hasPitch THEN multipliers.pitch[input.pitchTier] ELSE RInt(1)
        hasStory == input.storyCount > 1 /\ Truthy(multipliers.story)
        storyMultiplier == IF hasStory THEN RPow(multipliers.story, input.storyCount - 1)
                           ELSE RInt(1)
        hasTearOff == input.tearOffLayers > 0 /\ Truthy(multipliers.tearOff)
        tearOffMultiplier ==
            IF hasTearOff
            THEN RAdd(RInt(1), RMul(multipliers.tearOff, RInt(input.tearOffLayers)))
            ELSE RInt(1)
        hasHvhz == input.isHVHZ /\ Truthy(multipliers.hvhz)
        hvhzMultiplier == IF hasHvhz THEN multipliers.hvhz ELSE RInt(1)
        finalMultiplier ==
            RMul(RMul(RMul(pitchMultiplier, storyMultiplier), tearOffMultiplier),
                 hvhzMultiplier)
        delta(m) == RMul(baseSquarePrice, RSub(m, RInt(1)))
        breakdown ==
            <<Line("base", baseSquarePrice, FALSE)>>
            \o (IF hasPitch THEN <<Line("pitch", delta(pitchMultiplier), TRUE)>> ELSE <<>>)
            \o (IF hasStory THEN <<Line("story", delta(storyMultiplier), TRUE)>> ELSE <<>>)
            \o (IF hasTearOff THEN <<Line("tearOff", delta(tearOffMultiplier), TRUE)>> ELSE <<>>)
            \o (IF hasHvhz THEN <<Line("hvhz", delta(hvhzMultiplier), TRUE)>> ELSE <<>>)
            \o [i \in 1..Len(row.fixedAdders) |->
                  Line(row.fixedAdders[i].key, Rat(row.fixedAdders[i].cents, 100), FALSE)]
        totalSquarePrice == RMul(baseSquarePrice, finalMultiplier)
        fixedCosts == SumAdders(row.fixedAdders)
        totalPrice == RAdd(totalSquarePrice, fixedCosts)
    IN PricingResult(basePrice, totalSquarePrice, finalMultiplier, fixedCosts,
                     totalPrice, breakdown)

\* The outcome of one calculateSectionPrice call: the row it used and its
\* result, or the 'No pricing found' error
Priced(input, row) ==
    [input |-> input, found |-> TRUE, row |-> row, result |-> PriceWithRow(input, row)]

NotPriced(input) ==
    [input |-> input, found |-> FALSE, row |-> NoRow, result |-> NoPricingResult]

\* calculateSectionPrice: what a call with this input can come to
calculateSectionPrice(card, input) ==
    LET rows == getPricingMatrix(card, input)
    IN IF rows = {} THEN {NotPriced(input)}
       ELSE {Priced(input, r) : r \in rows}

(***************************************************************************)
(* Rate cards.  A rate card is the content of the pricingMatrix table,     *)
(* which an administrator configures; the model's cards have the shape of  *)
(* the seeded one, with prices small enough for exact arithmetic.          *)
(***************************************************************************)
CardCounties == {"Miami-Dade", "Palm Beach", "DEFAULT"}

StoryCounts == {1, 3}

TearOffLayers == {0, 2}

\* Base price per square, in cents
BasePriceCents(systemType) ==
    CASE systemType = "SHINGLE" -> 500
      [] systemType = "METAL" -> 800
      [] systemType = "FLAT_TPO" -> 700
      [] systemType = "FLAT_MODBIT" -> 600
      [] OTHER -> 650

SeedMultipliers ==
    Multipliers(RInt(1), Rat(21, 20), Rat(23, 20), Rat(11, 10), Rat(1, 10), RInt(1))

Adder(key, cents) == [key |-> key, cents |-> cents]

SeedAdders(pricePerSquare, tearOff) ==
    <<Adder("permit", RRound(Rat(pricePerSquare * 2, 100))),
      Adder("disposal", tearOff * 150 + 250),
      Adder("cleanup", 150)>>

SeedRow(county, systemType, pitchTier, storyTier, tearOff, hvhz) ==
    LET pricePerSquare ==
            BasePriceCents(systemType) + (IF county = "DEFAULT" THEN 0 ELSE 50)
                + (IF hvhz THEN 100 ELSE 0)
    IN Row(county, systemType, pitchTier, storyTier, tearOff, hvhz, pricePerSquare,
           SeedMultipliers, SeedAdders(pricePerSquare, tearOff))

\* The rows the seed creates: flat systems without a pitch tier, sloped systems
\* with one, and the HVHZ counties with HVHZ rows only
SeedCard ==
    {SeedRow(county, systemType, pitchTier, storyTier, tearOff, hvhz) :
        county \in CardCounties, systemType \in SystemTypes,
        pitchTier \in PitchTiers \cup {NULL}, storyTier \in StoryCounts,
        tearOff \in TearOffLayers, hvhz \in BOOLEAN}
    \ {r \in
        {SeedRow(county, systemType, pitchTier, storyTier, tearOff, hvhz) :
            county \in CardCounties, systemType \in SystemTypes,
            pitchTier \in PitchTiers \cup {NULL}, storyTier \in StoryCounts,
            tearOff \in TearOffLayers, hvhz \in BOOLEAN} :
        \/ (Family(r.systemType) = "FLAT") # (r.pitchTier = NULL)
        \/ r.county = "Miami-Dade" /\ ~r.hvhz}

\* Rows an administrator added: sloped systems without a pitch tier, a flat
\* system with one, a row with an HVHZ factor, a row without multipliers or
\* adders, and a second row for a key the card already has
AdminRows ==
    {Row("DEFAULT", "METAL", NULL, st, t, h, 900, SeedMultipliers, SeedAdders(900, t)) :
        st \in StoryCounts, t \in TearOffLayers, h \in BOOLEAN}
    \cup {Row("DEFAULT", "FLAT_TPO", "MEDIUM", st, t, h, 750, SeedMultipliers,
              SeedAdders(750, t)) :
        st \in StoryCounts, t \in TearOffLayers, h \in BOOLEAN}
    \cup {Row("Broward", "SHINGLE", "MEDIUM", 1, 0, TRUE, 600,
              Multipliers(RInt(1), Rat(21, 20), Rat(23, 20), Rat(11, 10), Rat(1, 10),
                          Rat(11, 10)),
              SeedAdders(600, 0)),
          Row("Palm Beach", "FLAT_BUR", NULL, 1, 0, FALSE, 400,
              Multipliers(RInt(0), RInt(0), RInt(0), RInt(0), RInt(0), RInt(0)), <<>>),
          Row("Palm Beach", "SHINGLE", "MEDIUM", 1, 0, FALSE, 525, SeedMultipliers,
              SeedAdders(525, 0))}

\* The rate cards of the model, by name: the seeded one, the seeded one with
\* the administrator's rows, and the seeded one without its DEFAULT rows
RateCards == {"seed", "admin", "noDefault"}

AdminCard == SeedCard \cup AdminRows

NoDefaultCard == {r \in SeedCard : r.county # "DEFAULT"}

\* The rows of a rate card
CardRows(card) ==
    CASE card = "seed" -> SeedCard
      [] card = "admin" -> AdminCard
      [] OTHER -> NoDefaultCard

(***************************************************************************)
(* The price computation as a pure function of the input and the row.      *)
(***************************************************************************)
\* Rows calculateSectionPrice can have resolved: seeded ones, one with an
\* HVHZ factor, one without multipliers or adders
PriceRows ==
    {SeedRow("Palm Beach", "SHINGLE", "MEDIUM", 1, 0, FALSE),
     SeedRow("DEFAULT", "FLAT_TPO", NULL, 3, 2, TRUE)}
    \cup {r \in AdminRows : r.county \in {"Broward", "Palm Beach"}}

\* finalSquares of the inputs
SquareCounts == {RInt(10), Rat(11, 2)}

\* storyCount and tearOffLayers as the request schemas admit them
StoryCountRange == 1..3

TearOffLayerRange == 0..2

\* A row, an input, and a second input that differs from the first in a
\* larger storyCount or in a larger tearOffLayers
PriceArgs ==
    {a \in {[row |-> r,
             input |-> PricingInput(r.systemType, r.county, sq, pt, sc, tl, hv),
             other |-> PricingInput(r.systemType, r.county, sq, pt, sc2, tl2, hv)] :
                r \in PriceRows, sq \in SquareCounts, pt \in PitchTiers \cup {NULL},
                sc \in StoryCountRange, tl \in TearOffLayerRange, hv \in BOOLEAN,
                sc2 \in StoryCountRange, tl2 \in TearOffLayerRange} :
        \/ a.other.storyCount > a.input.storyCount
              /\ a.other.tearOffLayers = a.input.tearOffLayers
        \/ a.other.storyCount = a.input.storyCount
              /\ a.other.tearOffLayers > a.input.tearOffLayers}

NoPricePair == [first |-> NoPricingResult, second |-> NoPricingResult]

PriceCalcInit ==
    /\ arg \in PriceArgs
    /\ applied = FALSE
    /\ ret = NoPricePair

\* calculateSectionPrice for both inputs, the row being the one resolved
ApplyPriceWithRow ==
    /\ ~applied
    /\ applied' = TRUE
    /\ ret' = [first |-> PriceWithRow(arg.input, arg.row),
               second |-> PriceWithRow(arg.other, arg.row)]
    /\ UNCHANGED arg
    /\ UNCHANGED notFn

(***************************************************************************)
(* FinanceCalculationService.                                              *)
(***************************************************************************)
Infinity == <<1, 0>>

NegInfinity == <<-1, 0>>

IsFinite(a) == a[2] # 0

\* A financePlan row; 0 for an amount bound the row does not have (null and 0
\* are treated alike)
FinancePlan(name, aprMin, aprMax, termMinMonths, termMaxMonths, dealerFeePercent, amountMinCents, amountMaxCents, active) ==
    [name |-> name, aprMin |-> aprMin, aprMax |-> aprMax,
     termMinMonths |-> termMinMonths, termMaxMonths |-> termMaxMonths,
     dealerFeePercent |-> dealerFeePercent, amountMinCents |-> amountMinCents,
     amountMaxCents |-> amountMaxCents, active |-> active]

calculateMonthlyPayment(principal, annualRate, termMonths) ==
    IF annualRate[1] = 0 THEN RDiv(principal, RInt(termMonths))
    ELSE LET monthlyRate == RDiv(annualRate, RInt(12))
             growth == RPow(RAdd(RInt(1), monthlyRate), termMonths)
             monthlyPayment ==
                 RDiv(RMul(RMul(principal, monthlyRate), growth), RSub(growth, RInt(1)))
         IN Rat(RRound(RMul(monthlyPayment, RInt(100))), 100)

\* calculatePaymentRange on the principal as given, without the dealer fee
calculatePaymentRangeNoFee(principal, aprMin, aprMax, termMinMonths, termMaxMonths, dealerFeePercent) ==
    [monthlyPaymentMin |-> calculateMonthlyPayment(principal, aprMin, termMaxMonths),
     monthlyPaymentMax |-> calculateMonthlyPayment(principal, aprMax, termMinMonths)]

calculatePaymentRange(principal, aprMin, aprMax, termMinMonths, termMaxMonths, dealerFeePercent) ==
    LET adjustedPrincipal == RMul(principal, RAdd(RInt(1), dealerFeePercent))
    IN [monthlyPaymentMin |-> calculateMonthlyPayment(adjustedPrincipal, aprMin, termMaxMonths),
        monthlyPaymentMax |-> calculateMonthlyPayment(adjustedPrincipal, aprMax, termMinMonths)]

\* The plans the findMany query returns
QueriedPlans(plans, loanAmount) ==
    {p \in plans :
        p.active /\ (p.amountMinCents = 0
                        \/ RLe(RInt(p.amountMinCents), RMul(loanAmount, RInt(100))))}

\* The filter with both bounds of the window excluded
EligiblePlansExclusive(plans, loanAmount) ==
    {p \in QueriedPlans(plans, loanAmount) :
        /\ RLt(Rat(p.amountMinCents, 100), loanAmount)
        /\ (p.amountMaxCents = 0 \/ RLt(loanAmount, Rat(p.amountMaxCents, 100)))}

\* The plans that pass the filter on the loan amount
EligiblePlans(plans, loanAmount) ==
    {p \in QueriedPlans(plans, loanAmount) :
        /\ RLe(Rat(p.amountMinCents, 100), loanAmount)
        /\ (p.amountMaxCents = 0 \/ RLe(loanAmount, Rat(p.amountMaxCents, 100)))}

PlanOption(p, loanAmount) ==
    [name |-> p.name]
    @@ calculatePaymentRange(loanAmount, RDiv(p.aprMin, RInt(100)),
                             RDiv(p.aprMax, RInt(100)), p.termMinMonths,
                             p.termMaxMonths,
                             IF Truthy(p.dealerFeePercent)
                             THEN RDiv(p.dealerFeePercent, RInt(100)) ELSE RInt(0))

\* Math.min / Math.max over a set of numbers: Infinity / -Infinity when empty
RMinOf(S) == IF S = {} THEN Infinity ELSE CHOOSE a \in S : \A b \in S : RLe(a, b)

RMaxOf(S) == IF S = {} THEN NegInfinity ELSE CHOOSE a \in S : \A b \in S : RLe(b, a)

FinancingResult(ok, options, monthlyMin, monthlyMax) ==
    [ok |-> ok, options |-> options, monthlyMin |-> monthlyMin, monthlyMax |-> monthlyMax]

NoFinancing == FinancingResult(FALSE, {}, NullNum, NullNum)

\* calculateFinancingOptions: ok is FALSE when it throws 'No financing options
\* available'
calculateFinancingOptions(plans, loanAmount) ==
    IF QueriedPlans(plans, loanAmount) = {} THEN NoFinancing
    ELSE LET options == {PlanOption(p, loanAmount) : p \in EligiblePlans(plans, loanAmount)}
         IN FinancingResult(TRUE, options,
                            RMinOf({o.monthlyPaymentMin : o \in options}),
                            RMaxOf({o.monthlyPaymentMax : o \in options}))

\* The financePlan table of the model: short terms keep the payments exact
FinancePlans ==
    {FinancePlan("Standard Financing", RInt(0), RInt(12), 1, 2, NullNum, 5000, 100000, TRUE),
     FinancePlan("Premium Financing", RInt(12), RInt(24), 1, 2, RInt(25), 10000, 15000, TRUE),
     FinancePlan("Retired Financing", RInt(0), RInt(0), 1, 1, NullNum, 0, 0, FALSE)}

\* Rows of the financePlan table besides the seeded two: an inactive plan, a
\* plan without an amount window, and a plan with an upper bound only
PlanRows ==
    FinancePlans
    \cup {FinancePlan("Open Financing", RInt(0), RInt(12), 1, 1, NullNum, 0, 0, TRUE),
          FinancePlan("Small Loans", RInt(12), RInt(12), 2, 2, RInt(10), 0, 8000, TRUE)}

\* The financePlan tables an administrator can have configured
PlanTables == SUBSET PlanRows

\* Loan amounts in dollars: on, just inside and just outside the bounds of
\* the windows
LoanAmounts ==
    {RInt(0), Rat(4999, 100), RInt(50), RInt(80), Rat(8001, 100), RInt(100), RInt(150),
     Rat(15001, 100), RInt(1000), Rat(2001, 2), RInt(2000)}

FinanceArgs == {[plans |-> t, loanAmount |-> a] : t \in PlanTables, a \in LoanAmounts}

FinanceCalcInit ==
    /\ arg \in FinanceArgs
    /\ applied = FALSE
    /\ ret = NoFinancing

ApplyCalculateFinancingOptions ==
    /\ ~applied
    /\ applied' = TRUE
    /\ ret' = calculateFinancingOptions(arg.plans, arg.loanAmount)
    /\ UNCHANGED arg
    /\ UNCHANGED notFn

(***************************************************************************)
(* The store of the quote routes.                                          *)
(***************************************************************************)
\* A nullable Int column that is null
NullInt == -1

QuoteRow(id, county, total, monthlyMin, monthlyMax) ==
    [id |-> id, county |-> county, totalPrice |-> total, monthlyMin |-> monthlyMin,
     monthlyMax |-> monthlyMax]

\* A roofSection row as the measurement left it: nothing selected or priced
Section(kind, planAreaSqFt, pitchRisePer12, facets, hipsValleys, penetrations) ==
    [kind |-> kind, planAreaSqFt |-> planAreaSqFt, pitchRisePer12 |-> pitchRisePer12,
     complexityFacets |-> facets, complexityHipsValleys |-> hipsValleys,
     penetrations |-> penetrations, selectedSystem |-> NULL,
     wastePercentApplied |-> NullInt, finalAreaSqFt |-> NullNum,
     finalSquares |-> NullNum, priceCents |-> NullInt]

SectionIds == {"s1", "s2"}

\* The sections of the quote: a sloped one and a flat one
QuoteSections ==
    [s \in SectionIds |->
        IF s = "s1" THEN Section("SLOPED", RInt(1200), RInt(5), 9, 4, 6)
        ELSE Section("FLAT", RInt(480), NullNum, 1, 0, 1)]

QuoteCounties == {"Miami-Dade", "Broward", "Palm Beach", "Monroe"}

HVHZCounties == {"Miami-Dade", "Broward"}

\* One calculateSectionPrice call of a request: the section it prices, that
\* section's kind (NULL in the POST route, which has no section row), where the
\* call is, and what it came to
Task(sectionId, kind, input, state, outcome) ==
    [sectionId |-> sectionId, kind |-> kind, input |-> input, state |-> state,
     outcome |-> outcome]

Request(quoteId, sectionCount, storyCount, tearOffLayers) ==
    [quoteId |-> quoteId, remaining |-> sectionCount, storyCount |-> storyCount,
     tearOffLayers |-> tearOffLayers]

NoRequest == Request(NULL, 0, 0, 0)

NoLoadedQuote == [quote |-> QuoteRow(NULL, NULL, NullInt, NullInt, NullInt),
                  sections |-> QuoteSections]

\* No request in flight
RequestIdle ==
    /\ rKind = "none"
    /\ rpc = "idle"
    /\ rReq = NoRequest
    /\ loadedQuote = NoLoadedQuote
    /\ requestRules = NoRules
    /\ tasks = <<>>
    /\ totalPriceCents = 0
    /\ rTotalPrice = NullNum
    /\ financeArg = NullNum
    /\ financing = NoFinancing
    /\ rStatus = 0
    /\ quoteAtStart = quote
    /\ sectionsAtStart = sections
    /\ nRequests = 0

QuoteIdle ==
    /\ rateCard = "seed"
    /\ quote = QuoteRow("q1", "Palm Beach", NullInt, NullInt, NullInt)
    /\ sections = QuoteSections
    /\ RequestIdle

\* The sections after an earlier update-selections request priced them
PricedSections ==
    [s \in SectionIds |->
        IF s = "s1"
        THEN [QuoteSections[s] EXCEPT !.selectedSystem = "SHINGLE",
                                      !.wastePercentApplied = 16,
                                      !.finalAreaSqFt = RInt(1508),
                                      !.finalSquares = Rat(1508, 100),
                                      !.priceCents = 9000]
        ELSE [QuoteSections[s] EXCEPT !.selectedSystem = "FLAT_TPO",
                                      !.wastePercentApplied = 12,
                                      !.finalAreaSqFt = Rat(5376, 10),
                                      !.finalSquares = Rat(5376, 1000),
                                      !.priceCents = 4000]]

\* A created quote whose sections are measured, or one an earlier request has
\* priced, over one of the rate cards
QuoteInit ==
    /\ rateCard \in RateCards
    /\ \E county \in QuoteCounties :
          \/ /\ quote = QuoteRow("q1", county, NullInt, NullInt, NullInt)
             /\ sections = QuoteSections
          \/ /\ quote = QuoteRow("q1", county, 13000, 300, 400)
             /\ sections = PricedSections
    /\ RequestIdle

(***************************************************************************)
(* PATCH /api/quote/update-selections, after the rate limit let the        *)
(* request through.                                                        *)
(***************************************************************************)
\* What getWasteRules of the request's own service returns: its cache, else
\* the stored row (the built-in default without one or after a failed read)
RequestWasteRules(cache, store, loadOk) ==
    IF cache # NoRules THEN cache
    ELSE IF loadOk /\ store # NoRules THEN store
    ELSE DEFAULT_WASTE_RULES

\* The cache of the request's service after that call
RequestWasteCache(cache, store, loadOk) ==
    IF cache # NoRules THEN cache
    ELSE IF ~loadOk THEN NoRules
    ELSE IF store # NoRules THEN store
    ELSE DEFAULT_WASTE_RULES

\* let finalAreaSqFt = planAreaSqFt; sloped sections with a rise get the
\* sloped area
SectionArea(existingSection) ==
    IF existingSection.kind = "SLOPED" /\ Truthy(existingSection.pitchRisePer12)
    THEN calculateSlopedArea(existingSection.planAreaSqFt, existingSection.pitchRisePer12)
    ELSE existingSection.planAreaSqFt

\* const pricingInput = {...}
SectionPricingInput(existingSection, systemType, county, wasteResult, req) ==
    PricingInput(systemType, county, wasteResult.finalSquares,
                 IF Truthy(existingSection.pitchRisePer12)
                 THEN getPitchTier(existingSection.pitchRisePer12) ELSE NULL,
                 req.storyCount, req.tearOffLayers, county \in HVHZCounties)

\* Math.round(dollars * 100)
ToCents(dollars) == RRound(RMul(dollars, RInt(100)))

\* The request is parsed and the quote read with its sections; 404 without
\* the quote
PatchBegin(quoteId, sectionCount, storyCount, tearOffLayers) ==
    /\ rpc \in {"idle", "done"}
    /\ nRequests < MaxRequests
    /\ nRequests' = nRequests + 1
    /\ rKind' = "patch"
    /\ rReq' = Request(quoteId, sectionCount, storyCount, tearOffLayers)
    /\ quoteAtStart' = quote
    /\ sectionsAtStart' = sections
    /\ requestRules' = NoRules
    /\ tasks' = <<>>
    /\ totalPriceCents' = 0
    /\ rTotalPrice' = NullNum
    /\ financeArg' = NullNum
    /\ financing' = NoFinancing
    /\ IF quoteId = quote.id
       THEN /\ loadedQuote' = [quote |-> quote, sections |-> sections]
            /\ rpc' = "sections"
            /\ rStatus' = 0
       ELSE /\ loadedQuote' = NoLoadedQuote
            /\ rpc' = "done"
            /\ rStatus' = 404
    /\ UNCHANGED <<rateCard, quote, sections>>
    /\ UNCHANGED notQuote

\* One turn of `for (const sectionUpdate of sections)`: a section that is not
\* of the quote is skipped; otherwise its waste and price are computed and
\* the roofSection row is updated.  A pricing error ends the request with 400
PatchSection(sectionId, systemType) ==
    /\ rKind = "patch"
    /\ rpc = "sections"
    /\ rReq.remaining > 0
    /\ IF sectionId \notin SectionIds
       THEN /\ rReq' = [rReq EXCEPT !.remaining = @ - 1]
            /\ UNCHANGED <<sections, requestRules, tasks, totalPriceCents, rpc, rStatus>>
       ELSE \E loadOk \in BOOLEAN :
            LET existingSection == loadedQuote.sections[sectionId]
                rules == RequestWasteRules(requestRules, wStore, loadOk)
                wasteResult ==
                    ComputeWaste(rules, SectionArea(existingSection),
                                 Complexity(existingSection.complexityFacets,
                                            existingSection.complexityHipsValleys,
                                            existingSection.penetrations))
                pricingInput ==
                    SectionPricingInput(existingSection, systemType,
                                        loadedQuote.quote.county, wasteResult, rReq)
            IN \E pricingResult \in calculateSectionPrice(CardRows(rateCard), pricingInput) :
                /\ requestRules' = RequestWasteCache(requestRules, wStore, loadOk)
                /\ IF pricingResult.found
                   THEN LET priceCents == ToCents(pricingResult.result.totalPrice)
                        IN /\ sections' =
                                [sections EXCEPT ![sectionId] =
                                    [@ EXCEPT !.selectedSystem = systemType,
                                              !.wastePercentApplied =
                                                  wasteResult.totalWastePercent,
                                              !.finalAreaSqFt = wasteResult.finalAreaSqFt,
                                              !.finalSquares = wasteResult.finalSquares,
                                              !.priceCents = priceCents]]
                           /\ tasks' = Append(tasks, Task(sectionId, existingSection.kind,
                                                          pricingInput, "done",
                                                          pricingResult))
                           /\ totalPriceCents' = totalPriceCents + priceCents
                           /\ rReq' = [rReq EXCEPT !.remaining = @ - 1]
                           /\ UNCHANGED <<rpc, rStatus>>
                   ELSE /\ tasks' = Append(tasks, Task(sectionId, existingSection.kind,
                                                       pricingInput, "failed",
                                                       pricingResult))
                        /\ rpc' = "done"
                        /\ rStatus' = 400
                        /\ UNCHANGED <<sections, totalPriceCents, rReq>>
    /\ UNCHANGED <<rateCard, quote, rKind, loadedQuote, rTotalPrice, financeArg,
                   financing, quoteAtStart, sectionsAtStart, nRequests>>
    /\ UNCHANGED notQuote

\* After the loop: calculateFinancingOptions(totalPriceCents / 100); its error
\* ends the request with 400
PatchFinance ==
    /\ rKind = "patch"
    /\ rpc = "sections"
    /\ rReq.remaining = 0
    /\ LET amount == Rat(totalPriceCents, 100)
           result == calculateFinancingOptions(FinancePlans, amount)
       IN /\ financeArg' = amount
          /\ financing' = result
          /\ IF result.ok
             THEN rpc' = "quoteUpdate" /\ rStatus' = 0
             ELSE rpc' = "done" /\ rStatus' = 400
    /\ UNCHANGED <<rateCard, quote, sections, rKind, rReq, loadedQuote, requestRules,
                   tasks, totalPriceCents, rTotalPrice, quoteAtStart, sectionsAtStart,
                   nRequests>>
    /\ UNCHANGED notQuote

\* prisma.quote.update with the totals.  With no plan left by the filter the
\* monthly range is Infinity / -Infinity, which the store either rejects or
\* keeps as null
QuoteUpdate(total) ==
    IF IsFinite(financing.monthlyMin)
    THEN /\ quote' = [quote EXCEPT !.totalPrice = total,
                                   !.monthlyMin = ToCents(financing.monthlyMin),
                                   !.monthlyMax = ToCents(financing.monthlyMax)]
         /\ rStatus' = 200
    ELSE \E rejected \in BOOLEAN :
            IF rejected
            THEN quote' = quote /\ rStatus' = 400
            ELSE /\ quote' = [quote EXCEPT !.totalPrice = total,
                                           !.monthlyMin = NullInt,
                                           !.monthlyMax = NullInt]
                 /\ rStatus' = 200

\* Update quote totals, then the response
PatchQuoteUpdate ==
    /\ rKind = "patch"
    /\ rpc = "quoteUpdate"
    /\ QuoteUpdate(totalPriceCents)
    /\ rpc' = "done"
    /\ UNCHANGED <<rateCard, sections, rKind, rReq, loadedQuote, requestRules, tasks,
                   totalPriceCents, rTotalPrice, financeArg, financing, quoteAtStart,
                   sectionsAtStart, nRequests>>
    /\ UNCHANGED notQuote

(***************************************************************************)
(* POST /api/quote/price, after the rate limit let the request through.    *)
(***************************************************************************)
\* Section inputs a client sends (quotePricingSchema)
PriceRouteInputs ==
    {PricingInput("SHINGLE", "Palm Beach", RInt(10), "MEDIUM", 1, 0, FALSE),
     PricingInput("FLAT_TPO", "Monroe", Rat(11, 2), NULL, 1, 0, FALSE),
     PricingInput("METAL", "Monroe", RInt(10), NULL, 1, 2, FALSE),
     PricingInput("SHINGLE", "Broward", RInt(10), "MEDIUM", 1, 0, TRUE)}

\* The bodies' section lists: one to MaxSections sections
SectionLists == UNION {[1..n -> PriceRouteInputs] : n \in 1..MaxSections}

\* sectionId: `section-${index}`
SectionLabel(i) == IF i = 1 THEN "section-0" ELSE IF i = 2 THEN "section-1" ELSE "section-n"

\* The request is parsed and calculateQuotePrice starts one calculateSectionPrice
\* per section (sections.map(async ...)); each is at its first await
PriceBegin(quoteId, list) ==
    /\ rpc \in {"idle", "done"}
    /\ nRequests < MaxRequests
    /\ nRequests' = nRequests + 1
    /\ rKind' = "price"
    /\ rpc' = "pricing"
    /\ rReq' = Request(quoteId, Len(list), 0, 0)
    /\ quoteAtStart' = quote
    /\ sectionsAtStart' = sections
    /\ loadedQuote' = NoLoadedQuote
    /\ requestRules' = NoRules
    /\ tasks' = [i \in 1..Len(list) |->
                    Task(SectionLabel(i), NULL, list[i], "pending", NotPriced(list[i]))]
    /\ totalPriceCents' = 0
    /\ rTotalPrice' = NullNum
    /\ financeArg' = NullNum
    /\ financing' = NoFinancing
    /\ rStatus' = 0
    /\ UNCHANGED <<rateCard, quote, sections>>
    /\ UNCHANGED notQuote

\* One calculateSectionPrice call settles: its promise fulfils with the price
\* or rejects with 'No pricing found'.  The calls settle in any order, and go
\* on settling after Promise.all has rejected
PriceTask(i) ==
    /\ rKind = "price"
    /\ i \in 1..Len(tasks)
    /\ tasks[i].state = "pending"
    /\ \E pricingResult \in calculateSectionPrice(CardRows(rateCard), tasks[i].input) :
        tasks' = [tasks EXCEPT ![i].state = IF pricingResult.found THEN "done" ELSE "failed",
                               ![i].outcome = pricingResult]
    /\ UNCHANGED <<rateCard, quote, sections, rKind, rpc, rReq, loadedQuote,
                   requestRules, totalPriceCents, rTotalPrice, financeArg, financing,
                   rStatus, quoteAtStart, sectionsAtStart, nRequests>>
    /\ UNCHANGED notQuote

\* sectionResults.reduce((sum, section) => sum + section.totalPrice, 0)
RECURSIVE SumTotalPrice(_)
SumTotalPrice(sectionResults) ==
    IF sectionResults = <<>> THEN RInt(0)
    ELSE RAdd(SumTotalPrice(SubSeq(sectionResults, 1, Len(sectionResults) - 1)),
              sectionResults[Len(sectionResults)].outcome.result.totalPrice)

\* A join that settles with the first section price
PriceJoinRace ==
    /\ rKind = "price"
    /\ rpc = "pricing"
    /\ \E i \in 1..Len(tasks) : tasks[i].state # "pending"
    /\ IF \E i \in 1..Len(tasks) : tasks[i].state = "failed"
       THEN rpc' = "done" /\ rStatus' = 400 /\ UNCHANGED rTotalPrice
       ELSE /\ rTotalPrice' =
                  SumTotalPrice(SelectSeq(tasks, LAMBDA t : t.state = "done"))
            /\ rpc' = "finance"
            /\ UNCHANGED rStatus
    /\ UNCHANGED <<rateCard, quote, sections, rKind, rReq, loadedQuote, requestRules,
                   tasks, totalPriceCents, financeArg, financing, quoteAtStart,
                   sectionsAtStart, nRequests>>
    /\ UNCHANGED notQuote

\* await Promise.all(...): it rejects as soon as one call has rejected (400),
\* and fulfils once every call has fulfilled; then the total is summed
PriceJoin ==
    /\ rKind = "price"
    /\ rpc = "pricing"
    /\ \/ \E i \in 1..Len(tasks) : tasks[i].state = "failed"
       \/ \A i \in 1..Len(tasks) : tasks[i].state = "done"
    /\ IF \E i \in 1..Len(tasks) : tasks[i].state = "failed"
       THEN rpc' = "done" /\ rStatus' = 400 /\ UNCHANGED rTotalPrice
       ELSE /\ rTotalPrice' = SumTotalPrice(tasks)
            /\ rpc' = "finance"
            /\ UNCHANGED rStatus
    /\ UNCHANGED <<rateCard, quote, sections, rKind, rReq, loadedQuote, requestRules,
                   tasks, totalPriceCents, financeArg, financing, quoteAtStart,
                   sectionsAtStart, nRequests>>
    /\ UNCHANGED notQuote

\* calculateFinancingOptions(totalPrice); its error ends the request with 400.
\* Without a quoteId the response follows at once
PriceFinance ==
    /\ rKind = "price"
    /\ rpc = "finance"
    /\ LET result == calculateFinancingOptions(FinancePlans, rTotalPrice)
       IN /\ financeArg' = rTotalPrice
          /\ financing' = result
          /\ IF ~result.ok THEN rpc' = "done" /\ rStatus' = 400
             ELSE IF rReq.quoteId = NULL THEN rpc' = "done" /\ rStatus' = 200
             ELSE rpc' = "quoteUpdate" /\ rStatus' = 0
    /\ UNCHANGED <<rateCard, quote, sections, rKind, rReq, loadedQuote, requestRules,
                   tasks, totalPriceCents, rTotalPrice, quoteAtStart, sectionsAtStart,
                   nRequests>>
    /\ UNCHANGED notQuote

\* prisma.quote.update for the quoteId of the body; it throws when there is
\* no such quote (400)
PriceQuoteUpdate ==
    /\ rKind = "price"
    /\ rpc = "quoteUpdate"
    /\ IF rReq.quoteId = quote.id
       THEN QuoteUpdate(ToCents(rTotalPrice))
       ELSE quote' = quote /\ rStatus' = 400
    /\ rpc' = "done"
    /\ UNCHANGED <<rateCard, sections, rKind, rReq, loadedQuote, requestRules, tasks,
                   totalPriceCents, rTotalPrice, financeArg, financing, quoteAtStart,
                   sectionsAtStart, nRequests>>
    /\ UNCHANGED notQuote

\* Ids of quotes in requests: the quote, and one that does not exist
RequestQuoteIds == {"q1", "gone"}

\* Section ids in PATCH bodies: the quote's, and one of another quote
RequestSectionIds == SectionIds \cup {"other"}

\* System types in PATCH bodies: both sloped ones and a flat one
RequestSystemTypes == {"SHINGLE", "METAL", "FLAT_TPO"}

\* storyCount and tearOffLayers in PATCH bodies
RequestContexts == {<<1, 0>>, <<3, 2>>}

QuoteNext ==
    \/ \E quoteId \in RequestQuoteIds, n \in 1..MaxSections, context \in RequestContexts :
            PatchBegin(quoteId, n, context[1], context[2])
    \/ \E sectionId \in RequestSectionIds, systemType \in RequestSystemTypes :
            PatchSection(sectionId, systemType)
    \/ PatchFinance
    \/ PatchQuoteUpdate
    \/ \E quoteId \in RequestQuoteIds \cup {NULL}, list \in SectionLists :
            PriceBegin(quoteId, list)
    \/ \E i \in 1..MaxSections : PriceTask(i)
    \/ PriceJoin
    \/ PriceFinance
    \/ PriceQuoteUpdate

(***************************************************************************)
(* The rate limiter.  Time is counted in ticks; the 15-minute window every *)
(* route passes is WindowTicks ticks long.                                 *)
(***************************************************************************)
WindowTicks == 2

\* The clock stops at MaxTime
MaxTime == 3

\* What getClientIdentifier returns: the client's address
Identifiers == {"ip1", "ip2"}

\* The rate-limited routes and the limit each passes to rateLimit
Endpoints == {"lead", "measure", "quoteCreate", "resolveAddress", "price", "updateSelections"}

EndpointLimit(endpoint) ==
    CASE endpoint = "lead" -> 5
      [] endpoint = "measure" -> 10
      [] endpoint = "quoteCreate" -> 15
      [] endpoint = "resolveAddress" -> 20
      [] endpoint = "price" -> 25
      [] OTHER -> 30

\* Limits of the rateLimit calls that are not made through a route
DirectLimits == {1, 2}

Max(a, b) == IF a >= b THEN a ELSE b

\* RateLimitResult
RateLimitResult(success, limit, remaining, reset) ==
    [success |-> success, limit |-> limit, remaining |-> remaining, reset |-> reset]

\* An entry of the map
RequestEntry(count, reset) == [count |-> count, reset |-> reset]

\* The map after the clean-up loop: entries whose reset is before windowStart
\* are deleted
CleanedRequests(map, windowStart) ==
    [k \in {key \in DOMAIN map : ~(map[key].reset < windowStart)} |-> map[k]]

\* !current || current.reset < now, on the cleaned map
IsFreshNever(map, identifier, t) == identifier \notin DOMAIN map

IsFresh(map, identifier, t) ==
    identifier \notin DOMAIN map \/ map[identifier].reset < t

\* The entry rateLimit leaves in the map for the identifier
EntryAfter(map, identifier, t, windowMs) ==
    IF IsFresh(map, identifier, t)
    THEN RequestEntry(1, t + windowMs)
    ELSE RequestEntry(map[identifier].count + 1, map[identifier].reset)

\* The map when rateLimit(identifier, limit, windowMs) returns at time t
RequestsAfter(map, identifier, t, windowMs) ==
    LET cleaned == CleanedRequests(map, t - windowMs)
    IN [k \in DOMAIN cleaned \cup {identifier} |->
          IF k = identifier THEN EntryAfter(cleaned, identifier, t, windowMs)
          ELSE cleaned[k]]

\* What rateLimit(identifier, limit, windowMs) returns at time t
RateLimitReturn(map, identifier, limit, t, windowMs) ==
    LET cleaned == CleanedRequests(map, t - windowMs)
        current == EntryAfter(cleaned, identifier, t, windowMs)
    IN IF IsFresh(cleaned, identifier, t)
       THEN RateLimitResult(TRUE, limit, limit - 1, t + windowMs)
       ELSE RateLimitResult(current.count <= limit, limit,
                            Max(0, limit - current.count), current.reset)

\* History of one identifier at one endpoint: the reset time of the window its
\* last call fell in (-1: no call yet), the calls and the successful calls in
\* that window, the limits they were made with, and the refusals ever
Window(reset, calls, granted, limits, refusals) ==
    [reset |-> reset, calls |-> calls, granted |-> granted, limits |-> limits,
     refusals |-> refusals]

NoWindow == Window(-1, 0, 0, {}, 0)

\* A window is open for a call at time t until its reset time has passed
WindowOpen(w, t) == w.reset # -1 /\ t <= w.reset

WindowAfter(w, t, windowMs, result) ==
    LET granted == IF result.success THEN 1 ELSE 0
        refused == IF result.success THEN 0 ELSE 1
    IN IF WindowOpen(w, t)
       THEN Window(w.reset, w.calls + 1, w.granted + granted,
                   w.limits \cup {result.limit}, w.refusals + refused)
       ELSE Window(t + windowMs, 1, granted, {result.limit}, w.refusals + refused)

LastCall(n, identifier, endpoint, at, newWindow, result, status) ==
    [n |-> n, identifier |-> identifier, endpoint |-> endpoint, at |-> at,
     newWindow |-> newWindow, result |-> result, status |-> status]

NoLastCall == LastCall(0, NULL, NULL, -1, FALSE, RateLimitResult(FALSE, 0, 0, -1), 0)

RateIdle ==
    /\ requests = <<>>
    /\ now = 0
    /\ rlLast = NoLastCall
    /\ windows = [k \in Identifiers \X (Endpoints \cup {"direct"}) |-> NoWindow]

\* rateLimit(identifier, limit, windowMs) called for the endpoint; status is
\* the status the caller answers with when the call is refused
rateLimit(identifier, limit, windowMs, endpoint) ==
    LET result == RateLimitReturn(requests, identifier, limit, now, windowMs)
        key == <<identifier, endpoint>>
    IN /\ requests' = RequestsAfter(requests, identifier, now, windowMs)
       /\ windows' = [windows EXCEPT ![key] = WindowAfter(@, now, windowMs, result)]
       /\ rlLast' = LastCall(rlLast.n + 1, identifier, endpoint, now,
                             ~WindowOpen(windows[key], now), result,
                             IF result.success THEN 0 ELSE 429)
       /\ UNCHANGED now
       /\ UNCHANGED notRate

\* Time passes
Tick ==
    /\ now < MaxTime
    /\ now' = now + 1
    /\ UNCHANGED <<requests, rlLast, windows>>
    /\ UNCHANGED notRate

\* A rateLimit call outside the routes
MaxRateCalls == 4

RateLimitCall ==
    \E identifier \in Identifiers, limit \in DirectLimits :
        /\ rlLast.n < MaxRateCalls
        /\ rateLimit(identifier, limit, WindowTicks, "direct")

\* The first lines of each route handler: the identifier of the client, the
\* rateLimit call with the route's limit, and the 429 answer when it is
\* refused.  What a handler does after the limiter let it through does not
\* touch the limiter.
MaxRouteCalls == 6

RouteClients == {"ip1"}

LeadSubmit ==
    \E c \in RouteClients :
        /\ rlLast.n < MaxRouteCalls
        /\ rateLimit(c, 5, WindowTicks, "lead")

MeasureRun ==
    \E c \in RouteClients :
        /\ rlLast.n < MaxRouteCalls
        /\ rateLimit(c, 10, WindowTicks, "measure")

QuoteCreate ==
    \E c \in RouteClients :
        /\ rlLast.n < MaxRouteCalls
        /\ rateLimit(c, 15, WindowTicks, "quoteCreate")

ResolveAddress ==
    \E c \in RouteClients :
        /\ rlLast.n < MaxRouteCalls
        /\ rateLimit(c, 20, WindowTicks, "resolveAddress")

QuotePrice ==
    \E c \in RouteClients :
        /\ rlLast.n < MaxRouteCalls
        /\ rateLimit(c, 25, WindowTicks, "price")

UpdateSelections ==
    \E c \in RouteClients :
        /\ rlLast.n < MaxRouteCalls
        /\ rateLimit(c, 30, WindowTicks, "updateSelections")

RouteNext ==
    \/ LeadSubmit
    \/ MeasureRun
    \/ QuoteCreate
    \/ ResolveAddress
    \/ QuotePrice
    \/ UpdateSelections
    \/ Tick

(***************************************************************************)
(* Specifications.                                                         *)
(***************************************************************************)
InitMeasure == MeasureInit /\ WasteIdle /\ FnIdle /\ QuoteIdle /\ RateIdle

SpecMeasure == InitMeasure /\ [][MeasureNext]_vars

InitWaste == MeasureQuiet /\ WasteInit /\ FnIdle /\ QuoteIdle /\ RateIdle

SpecWaste == InitWaste /\ [][WasteNext]_vars

InitWasteCalc == MeasureQuiet /\ WasteIdle /\ WasteCalcInit /\ QuoteIdle /\ RateIdle

SpecWasteCalc == InitWasteCalc /\ [][ApplyComputeWaste]_vars

InitQuote == MeasureQuiet /\ WasteIdle /\ FnIdle /\ QuoteInit /\ RateIdle

SpecQuote == InitQuote /\ [][QuoteNext]_vars

InitHeuristic == MeasureQuiet /\ WasteIdle /\ HeuristicCalcInit /\ QuoteIdle /\ RateIdle

SpecHeuristic == InitHeuristic /\ [][HeuristicMeasureCall]_vars

InitAdapterResult == MeasureQuiet /\ WasteIdle /\ AdapterResultInit /\ QuoteIdle /\ RateIdle

SpecAdapterResult ==
    InitAdapterResult
    /\ [][ManualMeasureCall \/ ThirdPartyMeasureCall \/ HeuristicResultCall]_vars

InitGeometryCalc == MeasureQuiet /\ WasteIdle /\ GeometryCalcInit /\ QuoteIdle /\ RateIdle

SpecGeometryCalc == InitGeometryCalc /\ [][ApplyCalculateSlopedArea]_vars

InitRate == MeasureQuiet /\ WasteIdle /\ FnIdle /\ QuoteIdle /\ RateIdle

SpecRateLimit == InitRate /\ [][RateLimitCall \/ Tick]_vars

InitRoutes == MeasureQuiet /\ WasteIdle /\ FnIdle /\ QuoteIdle /\ RateIdle

SpecRoutes == InitRoutes /\ [][RouteNext]_vars

InitPriceCalc == MeasureQuiet /\ WasteIdle /\ PriceCalcInit /\ QuoteIdle /\ RateIdle

SpecPriceCalc == InitPriceCalc /\ [][ApplyPriceWithRow]_vars

InitFinanceCalc == MeasureQuiet /\ WasteIdle /\ FinanceCalcInit /\ QuoteIdle /\ RateIdle

SpecFinanceCalc == InitFinanceCalc /\ [][ApplyCalculateFinancingOptions]_vars

(***************************************************************************)
(* Properties of the adapter chain.                                        *)
(***************************************************************************)
ProbeIndices == 1..Len(probeLog)

\* The call is past the selection loop
PastSelection == mpc \in {"measuring", "storing", "done", "failed"}

\* The error of the last probe in the log that threw (NoError when none did)
LastProbeError ==
    LET thrown == {i \in ProbeIndices : probeLog[i][2] = "throw"}
    IN IF thrown = {} THEN NoError
       ELSE ProbeError(probeLog[CHOOSE i \in thrown : \A j \in thrown : j <= i][1])

\* C3: in every getRoofMeasurements call the adapters are probed strictly in the
\* order thirdParty, manual, heuristic; the selected adapter is the first one that
\* reported available, nothing is probed after it, and no adapter is selected
\* while an earlier one reported available.
C3_ProbeOrder ==
    /\ Len(probeLog) <= Len(AdapterOrder)
    /\ \A i \in ProbeIndices : probeLog[i][1] = AdapterOrder[i]
    /\ \A i \in ProbeIndices : probeLog[i][2] = "true" => i = Len(probeLog)
    /\ \A i \in ProbeIndices : probeLog[i][2] = "true" => selectedAdapter = probeLog[i][1]
    /\ selectedAdapter # NULL =>
          /\ probeLog # <<>>
          /\ probeLog[Len(probeLog)] = <<selectedAdapter, "true">>
          /\ \A i \in 1..(Len(probeLog) - 1) : probeLog[i][2] # "true"

\* C3 witness: manual was selected after thirdParty reported unavailable
C3_Witness ==
    /\ mpc = "measuring"
    /\ selectedAdapter = "manual"
    /\ probeLog = <<(<<"thirdParty", "false">>), (<<"manual", "true">>)>>

\* C4: a probe that throws does not abort the call: its error is recorded, the
\* next adapter in the order is probed, and a later adapter that reports
\* available is selected and measured.
C4_ProbeThrowContinues ==
    \A i \in ProbeIndices : probeLog[i][2] = "throw" =>
        /\ mError.kind \notin {"ProbeFailed"}
        /\ i < Len(AdapterOrder) =>
              \/ Len(probeLog) > i /\ probeLog[i + 1][1] = AdapterOrder[i + 1]
              \/ Len(probeLog) = i /\ mpc = "probing" /\ mIdx = i + 1
        /\ Len(probeLog) = i => lastError = ProbeError(probeLog[i][1])
        /\ \A j \in ProbeIndices : (j > i /\ probeLog[j][2] = "true") =>
              /\ selectedAdapter = probeLog[j][1]
              /\ mpc \in {"selectionEnd", "measuring", "storing", "done", "failed"}
              /\ mpc \in {"storing", "done", "failed"} => measureLog = <<probeLog[j][1]>>
              /\ mError.kind # "NoAdaptersAvailable"

\* C4 witness: thirdParty's probe threw, heuristic was selected and measured
C4_Witness ==
    /\ mpc = "done"
    /\ probeLog[1] = <<"thirdParty", "throw">>
    /\ selectedAdapter = "heuristic"
    /\ mResult.method = "heuristic"

\* C5: once an adapter is selected exactly one measure call is made, on that
\* adapter; if it fails the call fails, no adapter is probed or measured after
\* it and no other adapter's result is returned.
C5_MeasureOnce ==
    /\ Len(measureLog) <= 1
    /\ \A i \in 1..Len(measureLog) : measureLog[i] = selectedAdapter
    /\ measureLog # <<>> => probeLog[Len(probeLog)] = <<selectedAdapter, "true">>
    /\ mpc \in {"storing", "done"} =>
          /\ measureLog = <<selectedAdapter>>
          /\ mResult.method = selectedAdapter
    /\ mError.kind = "MeasurementFailed" =>
          /\ mpc = "failed"
          /\ measureLog = <<selectedAdapter>>
          /\ mResult = NoMeasurement
    /\ mpc = "probing" => measureLog = <<>>

\* C5 witness: the selected thirdParty adapter's measure failed and the call failed
C5_Witness ==
    /\ mpc = "failed"
    /\ measureLog = <<"thirdParty">>
    /\ mError = Failure("MeasurementFailed", [kind |-> "measureError", at |-> "thirdParty"])

\* C6: if every probe throws or reports unavailable, the call fails with the
\* no-adapters error without calling any measure, and the error carries the
\* error of the last probe that threw.
C6_NoAdapterAvailable ==
    /\ (PastSelection /\ \A i \in ProbeIndices : probeLog[i][2] # "true") =>
          /\ Len(probeLog) = Len(AdapterOrder)
          /\ mpc = "failed"
          /\ mError.kind = "NoAdaptersAvailable"
          /\ mError.cause = LastProbeError
          /\ measureLog = <<>>
          /\ mResult = NoMeasurement
    /\ mError.kind = "NoAdaptersAvailable" =>
          \A i \in ProbeIndices : probeLog[i][2] # "true"

\* C6 witness: thirdParty unavailable, manual threw, heuristic unavailable
C6_Witness ==
    /\ mpc = "failed"
    /\ probeLog = <<(<<"thirdParty", "false">>), (<<"manual", "throw">>),
                    (<<"heuristic", "false">>)>>
    /\ mError = Failure("NoAdaptersAvailable", ProbeError("manual"))

\* The service has the adapters its constructor builds
Shipped == \A i \in 1..Len(adapters) : adapters[i].impl = "shipped"

\* C18: the Manual adapter reports available, and is measured, only in a call
\* for which an override was set: an override set for an earlier call does
\* not make it available to a later call for which none was set (the last
\* override is never older than the call that found Manual available).
\* Without an override it reports unavailable.
C18_ManualPerRequest ==
    Shipped =>
        /\ \A i \in ProbeIndices :
              probeLog[i] = <<"manual", "true">> => manualSetFor >= mCalls
        /\ \A i \in 1..Len(measureLog) :
              measureLog[i] = "manual" => manualSetFor >= mCalls
        /\ manualSetFor = 0 =>
              \A i \in ProbeIndices : probeLog[i] # <<"manual", "true">>

\* C19: with the constructor's adapters the selection stage always selects
\* an adapter, whatever the ThirdParty adapter's configuration and health and
\* whether or not a manual override is set: the no-adapters failure does not
\* occur.
C19_AlwaysSelects ==
    Shipped =>
        /\ mError.kind # "NoAdaptersAvailable"
        /\ PastSelection => selectedAdapter # NULL
        /\ mpc = "selectionEnd" => selectedAdapter # NULL

\* C19 witness: ThirdParty is configured but its health probe did not answer
\* ok, Manual has no override, and Heuristic was selected
C19_Witness ==
    /\ Shipped
    /\ adapters[1].configured
    /\ adapters[2].manualData = NULL
    /\ mpc = "measuring"
    /\ selectedAdapter = "heuristic"
    /\ probeLog = <<(<<"thirdParty", "false">>), (<<"manual", "false">>),
                    (<<"heuristic", "true">>)>>

\* C20: the Heuristic adapter is deterministic: measure calls with the same
\* input return the same sections (kinds, plan areas, pitches, complexity
\* triples) and the same metadata.
C20_HeuristicDeterministic ==
    \A i, j \in 1..Len(ret) :
        /\ ret[i].sections = ret[j].sections
        /\ ret[i].metadata = ret[j].metadata

\* C21: in every result of the Manual, ThirdParty or Heuristic adapter, a
\* section has a rise-per-12 value exactly when its kind is SLOPED
C21_PitchIffSloped ==
    \A r \in 1..Len(ret) : \A i \in 1..Len(ret[r].sections) :
        (ret[r].sections[i].pitchRisePer12 # NullNum)
            <=> (ret[r].sections[i].kind = "SLOPED")

\* C30: a measurement record is written at most once per getRoofMeasurements
\* call and only after the selected adapter's measure succeeded, with the
\* method and quality of the result the call returns; a call whose selection
\* or measure fails creates no record.  The table changes only in the step
\* that ends a call successfully, which appends the one record.
C30_RecordAfterMeasure ==
    [][measurements' # measurements =>
          /\ mpc = "storing"
          /\ mpc' = "done"
          /\ measureLog # <<>>
          /\ measureLog[Len(measureLog)] = selectedAdapter
          /\ mResult # NoMeasurement
          /\ mResult' = mResult
          /\ measurements' = Append(measurements, mResult)]_vars

\* C30 witness: a call failed and wrote nothing, the next one succeeded and
\* the table holds its one record
C30_Witness ==
    /\ mpc = "done"
    /\ mCalls = 2
    /\ Len(measurements) = 1
    /\ measurements[1].method = mResult.method
    /\ measurements[1].quality = mResult.quality

(***************************************************************************)
(* Properties of the waste calculation.                                    *)
(***************************************************************************)
\* The sum of the base percentage and the three adders, before the cap
UncappedWaste ==
    ret.baseWaste + ret.facetsAdder + ret.hipsValleysAdder + ret.penetrationsAdder

\* C7: for every waste configuration and every complexity input the
\* totalWastePercent that calculateWaste returns never exceeds the
\* configuration's maxPercent, and the final area is computed with that
\* capped percentage.
C7_WasteCapped ==
    applied =>
        /\ ret.totalWastePercent <= arg.rules.maxPercent
        /\ ret.finalAreaSqFt = RMul(arg.areaSqFt, Rat(100 + ret.totalWastePercent, 100))

\* C7 witness: base and adders sum to more than maxPercent and the result is
\* maxPercent
C7_Witness ==
    /\ applied
    /\ UncappedWaste > arg.rules.maxPercent
    /\ ret.facetsAdder > 0
    /\ ret.totalWastePercent = arg.rules.maxPercent

\* The add value of the first range of the table, in list order, that
\* contains the value with both ends inclusive; 0 when there is none
RECURSIVE FirstRangeAdd(_, _)
FirstRangeAdd(value, table) ==
    IF table = <<>> THEN 0
    ELSE IF Head(table).min <= value /\ value <= Head(table).max THEN Head(table).add
    ELSE FirstRangeAdd(value, Tail(table))

\* C23: totalWastePercent is min(base + facets adder + hips/valleys adder +
\* penetrations adder, maxPercent), each adder being the add value of the
\* first range of its table that contains the count (ends inclusive) and 0
\* when no range does; the default table gives 16 for facets 9, hipsValleys 4,
\* penetrations 6.
C23_WasteFormula ==
    applied =>
        /\ ret.facetsAdder = FirstRangeAdd(arg.complexity.facets, arg.rules.facets)
        /\ ret.hipsValleysAdder
              = FirstRangeAdd(arg.complexity.hipsValleys, arg.rules.hipsValleys)
        /\ ret.penetrationsAdder
              = FirstRangeAdd(arg.complexity.penetrations, arg.rules.penetrations)
        /\ ret.totalWastePercent
              = Min(arg.rules.basePercent
                      + FirstRangeAdd(arg.complexity.facets, arg.rules.facets)
                      + FirstRangeAdd(arg.complexity.hipsValleys, arg.rules.hipsValleys)
                      + FirstRangeAdd(arg.complexity.penetrations, arg.rules.penetrations),
                    arg.rules.maxPercent)
        /\ (arg.rules = DEFAULT_WASTE_RULES /\ arg.complexity = Complexity(9, 4, 6))
              => ret.totalWastePercent = 16

\* C23 witness: the default table applied to facets 9, hipsValleys 4,
\* penetrations 6 gave 12 + 2 + 1 + 1 = 16
C23_Witness ==
    /\ applied
    /\ arg.rules = DEFAULT_WASTE_RULES
    /\ arg.complexity = Complexity(9, 4, 6)
    /\ ret.facetsAdder = 2
    /\ ret.hipsValleysAdder = 1
    /\ ret.penetrationsAdder = 1
    /\ ret.totalWastePercent = 16

\* C8: a getWasteRules / calculateWaste call that begins after an
\* administrator's update of the stored waste rules never works with rules
\* that were read before that update: rules served from the cache are at
\* least as new as the store was when the call began.
C8_NoStaleRules ==
    \A c \in WasteCallers :
        (wCalls[c].pc = "done" /\ wCalls[c].source = "cache") =>
            wCalls[c].rulesVersion >= wCalls[c].startVersion

\* C16: when the read of the waste-rule store throws, the call does not fail:
\* getWasteRules returns the built-in default rule set (base 12, max 22 and
\* the three default tier tables) and calculateWaste completes with the waste
\* computed from it.
C16_DefaultOnStoreError ==
    \A c \in WasteCallers :
        /\ wCalls[c].pc # "failed"
        /\ (wCalls[c].pc = "done" /\ ~wCalls[c].loadOk) =>
              /\ wCalls[c].rules = DEFAULT_WASTE_RULES
              /\ wCalls[c].rules.basePercent = 12
              /\ wCalls[c].rules.maxPercent = 22
              /\ wCalls[c].rules.facets = DefaultFacets
              /\ wCalls[c].rules.hipsValleys = DefaultHipsValleys
              /\ wCalls[c].rules.penetrations = DefaultPenetrations
              /\ wCalls[c].op = "calculateWaste" =>
                    wCalls[c].result =
                        ComputeWaste(DEFAULT_WASTE_RULES, wCalls[c].input.areaSqFt,
                                     wCalls[c].input.complexity)

\* C16 witness: the store held an administrator's row, its read failed, and
\* calculateWaste returned 16% (12 + 2 + 1 + 1) from the built-in default
C16_Witness ==
    \E c \in WasteCallers :
        /\ wCalls[c].pc = "done"
        /\ wCalls[c].op = "calculateWaste"
        /\ ~wCalls[c].loadOk
        /\ wStore = AdminRulesA
        /\ wCalls[c].result.baseWaste = 12
        /\ wCalls[c].result.totalWastePercent = 16

\* C17: a waste result computed from the built-in default because the store
\* could not be read can be told from one computed from the stored
\* configuration by the result itself: no two results, one of each kind, are
\* equal.
C17_FallbackFlagged ==
    \A c1, c2 \in WasteCallers :
        (/\ wCalls[c1].pc = "done" /\ wCalls[c1].op = "calculateWaste"
         /\ wCalls[c2].pc = "done" /\ wCalls[c2].op = "calculateWaste"
         /\ wCalls[c1].source = "defaultOnError"
         /\ wCalls[c2].source = "store") =>
            wCalls[c1].result # wCalls[c2].result

\* C26: invalidateCache is effective under interleaving: once it has run
\* after an update of the store, a getWasteRules call that was awaiting a read
\* issued before the update does not put the configuration of before the
\* update back into the cache, so that the calls that start afterwards get
\* the updated configuration.
C26_InvalidateEffective ==
    (wVersion > 0 /\ wInvalidated) =>
        \/ cachedRules.rules = NoRules
        \/ cachedRules.version = wVersion

\* C28: all sections of one calculateWasteForSections call are evaluated
\* against one and the same waste-rule configuration: no two of them use
\* different configurations (stored or built-in default, from before or after
\* an update), also when the store fails for one of the loads or is updated
\* between them.
C28_OneConfiguration ==
    (\A c \in WasteCallers :
        wCalls[c].op = "calculateWasteForSections" /\ wCalls[c].pc = "done") =>
        \A c1, c2 \in WasteCallers : wCalls[c1].rules = wCalls[c2].rules

(***************************************************************************)
(* Properties of the quote routes.                                         *)
(***************************************************************************)
TaskIndices == 1..Len(tasks)

\* C1: no roofSection row carries a price for a selected system whose family
\* differs from the section's kind: a PATCH update-selections request that
\* puts a sloped system on a FLAT section, or a flat system on a SLOPED one,
\* is rejected before a price is stored, whatever the rate card holds.
C1_FamilyGuard ==
    \A s \in SectionIds :
        sections[s].priceCents # NullInt =>
            Family(sections[s].selectedSystem) = sections[s].kind

\* The rows of the table with the input's system type, pitch tier, story
\* tier, tear-off layers and HVHZ flag, for a county
RowsFor(input, county) ==
    {r \in CardRows(rateCard) :
        /\ r.county = county
        /\ r.systemType = input.systemType
        /\ r.pitchTier = input.pitchTier
        /\ r.storyTier = input.storyCount
        /\ r.tearOffLayers = input.tearOffLayers
        /\ r.hvhz = input.isHVHZ}

\* C2: every settled calculateSectionPrice call used a row of the section's
\* own county when the table has one for its inputs; otherwise a row of
\* county DEFAULT for the same inputs when the table has one; otherwise it
\* failed without a price.  A price is always the one of the row used.
C2_RateCardResolution ==
    \A i \in TaskIndices :
        LET t == tasks[i]
            exact == RowsFor(t.input, t.input.county)
            fallback == RowsFor(t.input, "DEFAULT")
        IN t.state # "pending" =>
            /\ exact # {} => t.state = "done" /\ t.outcome.row \in exact
            /\ (exact = {} /\ fallback # {}) =>
                  t.state = "done" /\ t.outcome.row \in fallback
            /\ (exact = {} /\ fallback = {}) =>
                  /\ t.state = "failed"
                  /\ ~t.outcome.found
                  /\ t.outcome.result = NoPricingResult
            /\ t.state = "done" =>
                  /\ t.outcome.found
                  /\ t.outcome.result.pricePerSquare
                        = Rat(t.outcome.row.pricePerSquareCents, 100)
                  /\ t.outcome.result.breakdown[1].amount
                        = RMul(Rat(t.outcome.row.pricePerSquareCents, 100),
                               t.input.finalSquares)

\* C2 witness: in one request a call fell back to a DEFAULT row for a county
\* without rows, and a call found neither row and failed
C2_Witness ==
    /\ \E i \in TaskIndices :
          /\ tasks[i].state = "done"
          /\ tasks[i].input.county # "DEFAULT"
          /\ tasks[i].outcome.row.county = "DEFAULT"
    /\ \E i \in TaskIndices : tasks[i].state = "failed"

\* C9: a request in which the pricing of a section failed ends with an error
\* and leaves the store as it was when the request began: no roofSection
\* row and no quote total is persisted by it.
C9_NoPartialPersistence ==
    (rpc = "done" /\ \E i \in TaskIndices : tasks[i].state = "failed") =>
        /\ rStatus = 400
        /\ sections = sectionsAtStart
        /\ quote = quoteAtStart

\* The amount a section contributes to the total of its request: the rounded
\* cents of its price in the PATCH route, its price in the POST route
TaskAmount(t) ==
    IF rKind = "patch" THEN Rat(ToCents(t.outcome.result.totalPrice), 100)
    ELSE t.outcome.result.totalPrice

RECURSIVE TotalOf(_)
TotalOf(ts) == IF ts = <<>> THEN RInt(0) ELSE RAdd(TaskAmount(Head(ts)), TotalOf(Tail(ts)))

\* C10: when calculateFinancingOptions has been called, no section of the
\* request is still to be priced, every section price of the request is
\* known, and the amount passed is the total of those prices.
C10_FinanceAfterAllPrices ==
    financeArg # NullNum =>
        /\ rReq.remaining = 0 \/ rKind = "price"
        /\ \A i \in TaskIndices : tasks[i].state = "done"
        /\ financeArg = TotalOf(tasks)

\* C10 witness: the POST route called the financing calculation after both
\* of its two section prices had arrived
C10_Witness ==
    /\ rKind = "price"
    /\ financeArg # NullNum
    /\ Len(tasks) = 2
    /\ financing.ok

\* The sum of the stored priceCents of the quote's sections (a section that
\* was never priced has none)
RECURSIVE StoredPriceSum(_)
StoredPriceSum(ids) ==
    IF ids = {} THEN 0
    ELSE LET s == CHOOSE x \in ids : TRUE
             priceCents == IF sections[s].priceCents = NullInt THEN 0
                           ELSE sections[s].priceCents
         IN priceCents + StoredPriceSum(ids \ {s})

\* C27: after every successful update-selections request the quote's stored
\* totalPrice is the sum of the stored priceCents of all sections of the
\* quote, also when the request names only some of them or names section ids
\* that are not the quote's.
C27_TotalIsSectionSum ==
    (rKind = "patch" /\ rpc = "done" /\ rStatus = 200) =>
        quote.totalPrice = StoredPriceSum(SectionIds)

(***************************************************************************)
(* Properties of the geometry calculation.                                 *)
(***************************************************************************)
\* C22: the geometry calculation rejects a plan area that is not positive and
\* a rise that is negative, returning no surface area and no pitch tier, and
\* succeeds on every other input
C22_GeometryValidates ==
    applied =>
        IF RLe(arg.planAreaSqFt, RInt(0)) \/ RLt(arg.pitchRisePer12, RInt(0))
        THEN ret = NoPitchCalculation
        ELSE ret = PitchCalculation(arg.planAreaSqFt, arg.pitchRisePer12)

(***************************************************************************)
(* Properties of the rate limiter.                                         *)
(***************************************************************************)
\* The history of the identifier and endpoint of the last call
LastWindow == windows[<<rlLast.identifier, rlLast.endpoint>>]

\* C25: each endpoint enforces its own per-client limit (5 lead submissions,
\* 10 measurements, 15 quote creations, 20 address resolutions, 25 pricing
\* requests, 30 selection updates per window): a request is refused with 429
\* only if the client had already made at least the endpoint's limit of
\* requests to that same endpoint in the current window, whatever it asked of
\* other endpoints.
C25_OwnLimitPerEndpoint ==
    rlLast.status = 429 =>
        LastWindow.calls - 1 >= EndpointLimit(rlLast.endpoint)

\* C29: for every identifier, among rateLimit calls made with the same
\* limit at most `limit` succeed between the call that opens a window and the
\* window's reset time; the returned remaining is never negative and is
\* max(0, limit - calls counted in the window); a refused call counts; and
\* the first call after the reset time succeeds and opens a new window with
\* the count at 1.
C29_WindowCounts ==
    /\ \A id \in Identifiers :
          LET w == windows[<<id, "direct">>]
          IN /\ \A limit \in DirectLimits : w.limits = {limit} => w.granted <= limit
             /\ id \in DOMAIN requests => requests[id] = RequestEntry(w.calls, w.reset)
    /\ rlLast.n > 0 =>
          /\ rlLast.result.remaining >= 0
          /\ rlLast.result.remaining = Max(0, rlLast.result.limit - LastWindow.calls)
          /\ rlLast.result.success <=> LastWindow.calls <= rlLast.result.limit
          /\ requests[rlLast.identifier].count = LastWindow.calls
          /\ rlLast.newWindow =>
                /\ rlLast.result.success
                /\ rlLast.result.reset = rlLast.at + WindowTicks
                /\ requests[rlLast.identifier] = RequestEntry(1, rlLast.at + WindowTicks)

\* C29 witness: an identifier was refused in one window, and its first call
\* after that window's reset time succeeded and opened a new one
C29_Witness ==
    /\ rlLast.n > 0
    /\ rlLast.newWindow
    /\ rlLast.at > WindowTicks
    /\ LastWindow.refusals > 0
    /\ rlLast.result.success
    /\ requests[rlLast.identifier].count = 1

(***************************************************************************)
(* Properties of the financing calculation.                                *)
(***************************************************************************)
\* The plan is active and the amount lies in its window: at or above the
\* lower bound where it has one, at or below the upper bound where it has one
InWindow(p, loanAmount) ==
    /\ p.active
    /\ p.amountMinCents # 0 => RLe(Rat(p.amountMinCents, 100), loanAmount)
    /\ p.amountMaxCents # 0 => RLe(loanAmount, Rat(p.amountMaxCents, 100))

PlansInWindow == {p \in arg.plans : InWindow(p, arg.loanAmount)}

\* C11: whenever no active plan's window contains loanAmount,
\* calculateFinancingOptions fails with its error; a result it returns has at
\* least one option, and its overall range is made of payments of its options.
C11_NoEligiblePlanFails ==
    applied =>
        /\ PlansInWindow = {} => ~ret.ok
        /\ ret.ok =>
              /\ ret.options # {}
              /\ \E o \in ret.options : ret.monthlyMin = o.monthlyPaymentMin
              /\ \E o \in ret.options : ret.monthlyMax = o.monthlyPaymentMax

InflatedPrincipal(p, loanAmount) ==
    IF p.dealerFeePercent = NullNum THEN loanAmount
    ELSE RMul(loanAmount, RAdd(RInt(1), RDiv(p.dealerFeePercent, RInt(100))))

\* C13: for every eligible plan the returned option's monthlyPaymentMin is the
\* amortized payment on the principal inflated by the dealer fee at the plan's
\* lowest APR and longest term, and its monthlyPaymentMax the amortized payment
\* on that principal at the highest APR and shortest term.
C13_PaymentRange ==
    (applied /\ ret.ok) =>
        \A p \in PlansInWindow :
            \E o \in ret.options :
                /\ o.name = p.name
                /\ o.monthlyPaymentMin =
                      calculateMonthlyPayment(InflatedPrincipal(p, arg.loanAmount),
                                              RDiv(p.aprMin, RInt(100)), p.termMaxMonths)
                /\ o.monthlyPaymentMax =
                      calculateMonthlyPayment(InflatedPrincipal(p, arg.loanAmount),
                                              RDiv(p.aprMax, RInt(100)), p.termMinMonths)

\* C13 witness: $100 on the plan with a 25% dealer fee: the payments are those
\* of $125, from $63.44 a month over two months to $127.50 in one
C13_Witness ==
    /\ applied
    /\ arg.loanAmount = RInt(100)
    /\ \E o \in ret.options :
          /\ o.name = "Premium Financing"
          /\ o.monthlyPaymentMin = Rat(6344, 100)
          /\ o.monthlyPaymentMax = Rat(255, 2)

(***************************************************************************)
(* Properties of the price computation.                                    *)
(***************************************************************************)
\* A factor of the row, 1 when the row does not carry it
Factor(m) == IF Truthy(m) THEN m ELSE RInt(1)

\* pricePerSquare * finalSquares * pitch * story^(storyCount - 1)
\*   * (1 + tearOffRate * tearOffLayers) * hvhz + the fixed adders
ComposedTotal(input, row) ==
    LET m == row.multipliers
        pitch == IF input.pitchTier = NULL THEN RInt(1) ELSE Factor(m.pitch[input.pitchTier])
        story == RPow(Factor(m.story), input.storyCount - 1)
        tearOff == RAdd(RInt(1), RMul(m.tearOff, RInt(input.tearOffLayers)))
        hvhz == IF input.isHVHZ THEN Factor(m.hvhz) ELSE RInt(1)
        squares == RMul(Rat(row.pricePerSquareCents, 100), input.finalSquares)
    IN RAdd(RMul(RMul(RMul(RMul(squares, pitch), story), tearOff), hvhz),
            SumAdders(row.fixedAdders))

RECURSIVE SumAmounts(_)
SumAmounts(breakdown) ==
    IF breakdown = <<>> THEN RInt(0)
    ELSE RAdd(Head(breakdown).amount, SumAmounts(Tail(breakdown)))

\* C24: each multiplier line shows the delta its multiplier introduced on the
\* running price (in the order pitch, story, tear-off, HVHZ), so that for any
\* combination of active multipliers the amounts of the base line, the
\* multiplier lines and the fixed-adder lines add up to totalPrice.
C24_BreakdownAddsUp ==
    applied =>
        /\ SumAmounts(ret.first.breakdown) = ret.first.totalPrice
        /\ SumAmounts(ret.second.breakdown) = ret.second.totalPrice

\* a < b, by the sign of the difference
StrictlyLess(a, b) == RSub(b, a)[1] > 0

\* C15: for a fixed row and otherwise equal inputs, a larger storyCount gives
\* a strictly larger totalPrice when the row's story multiplier is greater
\* than 1, and a larger tearOffLayers gives a strictly larger totalPrice when
\* the row's per-layer tear-off rate is greater than 0.
C15_PriceMonotone ==
    applied =>
        /\ (arg.other.storyCount > arg.input.storyCount
                /\ RLt(RInt(1), arg.row.multipliers.story)) =>
              StrictlyLess(ret.first.totalPrice, ret.second.totalPrice)
        /\ (arg.other.tearOffLayers > arg.input.tearOffLayers
                /\ RLt(RInt(0), arg.row.multipliers.tearOff)) =>
              StrictlyLess(ret.first.totalPrice, ret.second.totalPrice)

\* C15 witness: two stories against three on a row whose story multiplier
\* is 1.1
C15_Witness ==
    /\ applied
    /\ arg.input.storyCount = 2
    /\ arg.other.storyCount = 3
    /\ arg.row.multipliers.story = Rat(11, 10)
    /\ StrictlyLess(ret.first.totalPrice, ret.second.totalPrice)

====
